---- MODULE Spec2Model ----
(***************************************************************************)
(* A model of go-html-validate's htmx attribute-grammar rule               *)
(* (rules.HTMXAttributes) and of the document tree it walks.               *)
(*                                                                         *)
(* Go strings are TLA+ strings; a byte is a string of length one.  The     *)
(* strings the model feeds the rule are ASCII, so strings.ToLower and      *)
(* strings.EqualFold are modelled on ASCII letters.                        *)
(***************************************************************************)
EXTENDS Integers, Sequences, FiniteSets, TLC

VARIABLES
    htmxEnabled,   \* HTMXAttributes.htmxEnabled
    htmxVersion,   \* HTMXAttributes.htmxVersion
    doc,           \* the parser.Document under check: a sequence of nodes
    op,            \* the last operation performed
    arg,           \* the string handed to the last validate* call
    results        \* the []Result the last operation returned

vars == <<htmxEnabled, htmxVersion, doc, op, arg, results>>

-----------------------------------------------------------------------------
(* package strings, as far as the rule uses it *)

At(s, i) == SubSeq(s, i, i)

UpperLetters == "ABCDEFGHIJKLMNOPQRSTUVWXYZ"

LowerLetters == "abcdefghijklmnopqrstuvwxyz"

\* upper-case letter |-> its lower-case letter
LowerOf == [c \in {At(UpperLetters, i) : i \in 1..26} |->
              At(LowerLetters, CHOOSE i \in 1..26 : At(UpperLetters, i) = c)]

Digits == {"0", "1", "2", "3", "4", "5", "6", "7", "8", "9"}

\* unicode.IsSpace restricted to ASCII
IsSpace(c) == c \in {" ", "\t", "\n", "\r"}

\* unicode.ToLower on one ASCII byte
LowerChar(c) == IF c \in DOMAIN LowerOf THEN LowerOf[c] ELSE c

RECURSIVE ToLower(_)
ToLower(s) == IF s = "" THEN "" ELSE LowerChar(Head(s)) \o ToLower(Tail(s))

HasPrefix(s, p) == Len(s) >= Len(p) /\ SubSeq(s, 1, Len(p)) = p

HasSuffix(s, p) == Len(s) >= Len(p) /\ SubSeq(s, Len(s) - Len(p) + 1, Len(s)) = p

TrimPrefix(s, p) == IF HasPrefix(s, p) THEN SubSeq(s, Len(p) + 1, Len(s)) ELSE s

\* strings.Index: 0-based index of the first occurrence of sub, -1 if none
Index(s, sub) ==
    LET hits == {i \in 1..(Len(s) - Len(sub) + 1) : SubSeq(s, i, i + Len(sub) - 1) = sub}
    IN  IF hits = {} THEN -1
        ELSE (CHOOSE i \in hits : \A j \in hits : i <= j) - 1

Contains(s, sub) == Index(s, sub) >= 0

RECURSIVE TrimLeftSpace(_)
TrimLeftSpace(s) ==
    IF s # "" /\ IsSpace(Head(s)) THEN TrimLeftSpace(Tail(s)) ELSE s

RECURSIVE TrimRightSpace(_)
TrimRightSpace(s) ==
    IF s # "" /\ IsSpace(At(s, Len(s)))
    THEN TrimRightSpace(SubSeq(s, 1, Len(s) - 1))
    ELSE s

TrimSpace(s) == TrimRightSpace(TrimLeftSpace(s))

\* strings.Fields: scan left to right; cur is the field being read
RECURSIVE FieldsFrom(_, _, _)
FieldsFrom(s, cur, acc) ==
    IF s = "" THEN (IF cur = "" THEN acc ELSE Append(acc, cur))
    ELSE IF IsSpace(Head(s))
         THEN FieldsFrom(Tail(s), "", IF cur = "" THEN acc ELSE Append(acc, cur))
         ELSE FieldsFrom(Tail(s), cur \o Head(s), acc)

Fields(s) == FieldsFrom(s, "", <<>>)

\* strings.Split(s, sep) for a one-byte sep
RECURSIVE SplitFrom(_, _, _, _)
SplitFrom(s, sep, cur, acc) ==
    IF s = "" THEN Append(acc, cur)
    ELSE IF Head(s) = sep
         THEN SplitFrom(Tail(s), sep, "", Append(acc, cur))
         ELSE SplitFrom(Tail(s), sep, cur \o Head(s), acc)

Split(s, sep) == SplitFrom(s, sep, "", <<>>)

\* strings.SplitN(s, sep, 2) for a one-byte sep
SplitN2(s, sep) ==
    LET i == Index(s, sep)
    IN  IF i = -1 THEN <<s>>
        ELSE <<SubSeq(s, 1, i), SubSeq(s, i + 2, Len(s))>>

\* strings.EqualFold on ASCII: byte by byte under case folding
RECURSIVE EqualFold(_, _)
EqualFold(s, t) ==
    IF s = "" \/ t = "" THEN s = t
    ELSE LowerChar(Head(s)) = LowerChar(Head(t)) /\ EqualFold(Tail(s), Tail(t))

-----------------------------------------------------------------------------
(* Result records and the knowledge tables of the rule *)

RuleHTMXAttributes == "htmx-attributes"

Error == "Error"

Warning == "Warning"

Result(message, filename, n, severity) ==
    [Rule |-> RuleHTMXAttributes, Message |-> message, Filename |-> filename,
     Line |-> n.Line, Col |-> n.Col, Severity |-> severity]

validSwapValues ==
    {"innerhtml", "outerhtml", "beforebegin", "afterbegin", "beforeend",
     "afterend", "delete", "none", "textcontent", "upsert"}

validSwapModifiers ==
    {"swap", "settle", "scroll", "show", "focus-scroll", "transition", "ignoreTitle"}

validTriggerModifiers ==
    {"once", "changed", "delay", "throttle", "from", "target", "consume",
     "queue", "root", "threshold"}

queueModes == {"first", "last", "all", "none"}

\* regexp ^\d+(?:ms|s)$ : strip the leading run of digits, then "ms" or "s"
RECURSIVE SkipDigits(_)
SkipDigits(s) == IF s # "" /\ Head(s) \in Digits THEN SkipDigits(Tail(s)) ELSE s

\* the pattern with \d* in place of \d+
timePatternMatchMut(s) == SkipDigits(s) \in {"ms", "s"}

timePatternMatch(s) ==
    LET rest == SkipDigits(s)
    IN  Len(rest) < Len(s) /\ rest \in {"ms", "s"}

\* the test that looks for a sentinel at the head of the value alone
containsTemplateMut(value) == HasPrefix(value, "{{") \/ HasPrefix(value, "TMPL")

\* "Skip template expressions (both raw and preprocessed)": the guard every
\* value validator opens with
containsTemplate(value) == Contains(value, "{{") \/ Contains(value, "TMPL")

-----------------------------------------------------------------------------
(* validateSwap *)

\* the gate as it would read if it tested for version "2" alone
swapV4OnlyMut(r, baseValue) ==
    r.htmxVersion = "2" /\ (baseValue = "textcontent" \/ baseValue = "upsert")

\* the htmx 4 only strategies, refused under any other version
swapV4Only(r, baseValue) ==
    r.htmxVersion # "4" /\ (baseValue = "textcontent" \/ baseValue = "upsert")

\* the body of the modifier loop: what one token appends to results
swapModifier(filename, n, modifier) ==
    LET colonIdx == Index(modifier, ":")
        modName  == ToLower(SubSeq(modifier, 1, colonIdx))
        modValue == SubSeq(modifier, colonIdx + 2, Len(modifier))
    IN  IF colonIdx = -1
        THEN <<Result("invalid hx-swap modifier '" \o modifier \o "' (missing colon)",
                      filename, n, Error)>>
        ELSE IF modName \notin validSwapModifiers
        THEN <<Result("unknown hx-swap modifier '" \o modName \o "'",
                      filename, n, Warning)>>
        ELSE IF modName \in {"swap", "settle"}
        THEN IF ~timePatternMatch(modValue)
             THEN <<Result("hx-swap " \o modName
                           \o " modifier requires a time value (e.g., '1s', '500ms')",
                           filename, n, Error)>>
             ELSE <<>>
        ELSE IF modName \in {"scroll", "show"}
        THEN IF ToLower(modValue) \notin {"top", "bottom"} /\ ~HasPrefix(modValue, "#")
             THEN <<Result("hx-swap " \o modName
                           \o " modifier value should be 'top', 'bottom', or a selector",
                           filename, n, Warning)>>
             ELSE <<>>
        ELSE IF modName = "focus-scroll"
        THEN IF modValue # "true" /\ modValue # "false"
             THEN <<Result("hx-swap focus-scroll modifier should be 'true' or 'false'",
                           filename, n, Error)>>
             ELSE <<>>
        ELSE IF modName = "transition"
        THEN IF modValue # "true" /\ modValue # "false"
             THEN <<Result("hx-swap transition modifier should be 'true' or 'false'",
                           filename, n, Error)>>
             ELSE <<>>
        ELSE <<>>

\* the loop as it would run with return in place of continue
RECURSIVE swapModifiersMut(_, _, _, _, _)
swapModifiersMut(filename, n, parts, i, res) ==
    IF i > Len(parts) THEN res
    ELSE IF swapModifier(filename, n, parts[i]) # <<>>
         THEN res \o swapModifier(filename, n, parts[i])
         ELSE swapModifiersMut(filename, n, parts, i + 1, res)

\* for i := 1; i < len(parts); i++ (parts is 1-based here, so i starts at 2)
RECURSIVE swapModifiers(_, _, _, _, _)
swapModifiers(filename, n, parts, i, res) ==
    IF i > Len(parts) THEN res
    ELSE swapModifiers(filename, n, parts, i + 1,
                       res \o swapModifier(filename, n, parts[i]))

validateSwap(r, filename, n, value) ==
    IF value = "" THEN <<>>
    ELSE IF containsTemplate(value) THEN <<>>
    ELSE LET parts     == Fields(TrimSpace(value))
             baseValue == ToLower(parts[1])
         IN  IF Len(parts) = 0 THEN <<>>
             ELSE IF swapV4Only(r, baseValue)
             THEN <<Result("hx-swap value '" \o baseValue
                           \o "' is only available in htmx 4", filename, n, Warning)>>
             ELSE IF baseValue \notin validSwapValues
             THEN <<Result("invalid hx-swap value '" \o parts[1] \o "'",
                           filename, n, Error)>>
             ELSE swapModifiers(filename, n, parts, 2, <<>>)

-----------------------------------------------------------------------------
(* validateTrigger *)

\* the branch with one message for both failures
everyTriggerMut(filename, n, parts) ==
    IF Len(parts) < 2 \/ ~timePatternMatch(parts[2])
    THEN <<Result("hx-trigger 'every' requires a time value (e.g., 'every 1s')",
                  filename, n, Error)>>
    ELSE <<>>

\* the "every Xs" branch
everyTrigger(filename, n, parts) ==
    IF Len(parts) < 2
    THEN <<Result("hx-trigger 'every' requires a time value (e.g., 'every 1s')",
                  filename, n, Error)>>
    ELSE IF ~timePatternMatch(parts[2])
    THEN <<Result("hx-trigger 'every' requires a valid time value (e.g., '1s', '500ms')",
                  filename, n, Error)>>
    ELSE <<>>

\* the body of the intersect loop
intersectModifier(filename, n, mod) ==
    IF HasPrefix(mod, "root:") \/ HasPrefix(mod, "threshold:") THEN <<>>
    ELSE IF mod = "once" THEN <<>>
    ELSE <<Result("unknown intersect modifier '" \o mod \o "'", filename, n, Warning)>>

RECURSIVE intersectModifiers(_, _, _, _, _)
intersectModifiers(filename, n, parts, i, res) ==
    IF i > Len(parts) THEN res
    ELSE intersectModifiers(filename, n, parts, i + 1,
                            res \o intersectModifier(filename, n, parts[i]))

\* the body of the "remaining modifiers" loop
triggerModifier(filename, n, modifier) ==
    LET colonIdx == Index(modifier, ":")
        modName  == ToLower(SubSeq(modifier, 1, colonIdx))
        modValue == SubSeq(modifier, colonIdx + 2, Len(modifier))
    IN  IF HasPrefix(modifier, "[") /\ HasSuffix(modifier, "]") THEN <<>>
        ELSE IF colonIdx = -1
        THEN IF ToLower(modifier) \notin validTriggerModifiers
             THEN <<Result("unknown hx-trigger modifier '" \o modifier \o "'",
                           filename, n, Warning)>>
             ELSE <<>>
        ELSE IF modName \notin validTriggerModifiers
        THEN <<Result("unknown hx-trigger modifier '" \o modName \o "'",
                      filename, n, Warning)>>
        ELSE IF modName \in {"delay", "throttle"}
        THEN IF ~timePatternMatch(modValue)
             THEN <<Result("hx-trigger " \o modName
                           \o " requires a time value (e.g., '1s', '500ms')",
                           filename, n, Error)>>
             ELSE <<>>
        ELSE IF modName = "queue"
        THEN IF ToLower(modValue) \notin queueModes
             THEN <<Result("hx-trigger queue mode should be 'first', 'last', 'all', or 'none'",
                           filename, n, Error)>>
             ELSE <<>>
        ELSE <<>>

RECURSIVE triggerModifiers(_, _, _, _, _)
triggerModifiers(filename, n, parts, i, res) ==
    IF i > Len(parts) THEN res
    ELSE triggerModifiers(filename, n, parts, i + 1,
                          res \o triggerModifier(filename, n, parts[i]))

validateSingleTrigger(filename, n, trigger) ==
    LET parts     == Fields(trigger)
        eventName == ToLower(parts[1])
    IN  IF Len(parts) = 0 THEN <<>>
        ELSE IF eventName = "every" THEN everyTrigger(filename, n, parts)
        ELSE IF eventName = "intersect"
        THEN intersectModifiers(filename, n, parts, 2, <<>>)
        ELSE triggerModifiers(filename, n, parts, 2, <<>>)

\* for _, trigger := range triggers
RECURSIVE triggerList(_, _, _, _, _)
triggerList(filename, n, triggers, i, res) ==
    IF i > Len(triggers) THEN res
    ELSE LET trigger == TrimSpace(triggers[i])
         IN  IF trigger = ""
             THEN triggerList(filename, n, triggers, i + 1, res)
             ELSE triggerList(filename, n, triggers, i + 1,
                              res \o validateSingleTrigger(filename, n, trigger))

validateTrigger(filename, n, value) ==
    IF value = "" THEN <<>>
    ELSE IF containsTemplate(value) THEN <<>>
    ELSE triggerList(filename, n, Split(TrimSpace(value), ","), 1, <<>>)

-----------------------------------------------------------------------------
(* validateTarget *)

isValidElement(name) ==
    name \in
    {"a", "abbr", "address", "area", "article", "aside", "audio",
     "b", "base", "bdi", "bdo", "blockquote", "body", "br", "button",
     "canvas", "caption", "cite", "code", "col", "colgroup",
     "data", "datalist", "dd", "del", "details", "dfn", "dialog", "div", "dl", "dt",
     "em", "embed",
     "fieldset", "figcaption", "figure", "footer", "form",
     "h1", "h2", "h3", "h4", "h5", "h6", "head", "header", "hgroup", "hr", "html",
     "i", "iframe", "img", "input", "ins",
     "kbd", "label", "legend", "li", "link",
     "main", "map", "mark", "menu", "meta", "meter",
     "nav", "noscript",
     "object", "ol", "optgroup", "option", "output",
     "p", "picture", "pre", "progress",
     "q", "rp", "rt", "ruby",
     "s", "samp", "script", "search", "section", "select", "slot", "small",
     "source", "span", "strong", "style", "sub", "summary", "sup",
     "table", "tbody", "td", "template", "textarea", "tfoot", "th", "thead",
     "time", "title", "tr", "track",
     "u", "ul", "var", "video", "wbr"}

targetSpecialValues == {"this", "next", "previous", "body"}

targetValidKeywords == {"closest", "find", "next", "previous"}

validateTarget(filename, n, value) ==
    IF value = "" THEN <<>>
    ELSE IF containsTemplate(value) THEN <<>>
    ELSE LET v       == TrimSpace(value)
             lower   == ToLower(v)
             parts   == SplitN2(v, " ")
             keyword == ToLower(parts[1])
         IN  IF ~Contains(v, " ")
             THEN IF lower \in targetSpecialValues THEN <<>>
                  ELSE IF HasPrefix(v, "#") \/ HasPrefix(v, ".") \/ isValidElement(lower)
                  THEN <<>>
                  ELSE <<>>
             ELSE IF keyword \notin targetValidKeywords /\ keyword \notin targetSpecialValues
             THEN <<Result("invalid hx-target keyword '" \o parts[1]
                           \o "'; expected 'this', 'closest', 'find', 'next', 'previous', or a CSS selector",
                           filename, n, Warning)>>
             ELSE <<>>

-----------------------------------------------------------------------------
(* validateHxOn *)

knownDOMEvents ==
    {"click", "dblclick", "mousedown", "mouseup",
     "mousemove", "mouseenter", "mouseleave", "mouseover", "mouseout",
     "keydown", "keyup", "keypress",
     "submit", "change", "input", "focus", "blur", "reset",
     "invalid", "select",
     "load", "unload", "resize", "scroll", "error",
     "beforeunload", "hashchange", "popstate",
     "drag", "dragstart", "dragend", "dragover",
     "dragenter", "dragleave", "drop",
     "touchstart", "touchend", "touchmove", "touchcancel",
     "pointerdown", "pointerup", "pointermove", "pointerenter",
     "pointerleave", "pointerover", "pointerout", "pointercancel",
     "animationstart", "animationend", "animationiteration",
     "transitionstart", "transitionend", "transitionrun", "transitioncancel",
     "copy", "cut", "paste",
     "play", "pause", "ended", "volumechange", "seeking",
     "seeked", "timeupdate", "loadeddata", "loadedmetadata",
     "contextmenu", "wheel", "compositionstart", "compositionend"}

knownHTMXv2Events ==
    {"htmx:abort", "htmx:afterOnLoad", "htmx:afterProcessNode", "htmx:afterRequest",
     "htmx:afterSettle", "htmx:afterSwap", "htmx:beforeCleanupElement",
     "htmx:beforeOnLoad", "htmx:beforeProcessNode", "htmx:beforeRequest",
     "htmx:beforeSend", "htmx:beforeSwap", "htmx:beforeTransition",
     "htmx:configRequest", "htmx:confirm", "htmx:historyCacheError",
     "htmx:historyCacheHit", "htmx:historyCacheMiss", "htmx:historyCacheMissLoad",
     "htmx:historyCacheMissLoadError", "htmx:historyRestore",
     "htmx:beforeHistorySave", "htmx:beforeHistoryUpdate", "htmx:load",
     "htmx:noSSESourceError", "htmx:oobAfterSwap", "htmx:oobBeforeSwap",
     "htmx:oobErrorNoTarget", "htmx:onLoadError", "htmx:prompt",
     "htmx:pushedIntoHistory", "htmx:replacedInHistory", "htmx:responseError",
     "htmx:sendAbort", "htmx:sendError", "htmx:sseError", "htmx:swapError",
     "htmx:targetError", "htmx:timeout", "htmx:trigger", "htmx:validateUrl",
     "htmx:validation:validate", "htmx:validation:failed", "htmx:validation:halted",
     "htmx:xhr:abort", "htmx:xhr:loadstart", "htmx:xhr:loadend", "htmx:xhr:progress"}

knownHTMXv4Phases == {"before", "after", "error", "finally"}

knownHTMXv4Actions ==
    {"request", "swap", "settle", "send", "process", "cleanup", "onLoad",
     "transition", "viewTransition", "history", "historyUpdate", "historySave",
     "sse", "oob"}

standaloneEvents == {"load", "abort", "trigger", "confirm", "prompt"}

validateHTMXv4Event(filename, n, eventName) ==
    LET remainder   == TrimPrefix(eventName, "htmx:")
        parts       == SplitN2(remainder, ":")
        phase       == ToLower(parts[1])
        actionParts == SplitN2(parts[2], ":")
        action      == ToLower(actionParts[1])
    IN  IF Len(parts) = 0 \/ parts[1] = ""
        THEN <<Result("invalid htmx event format '" \o eventName \o "'",
                      filename, n, Error)>>
        ELSE IF phase \notin knownHTMXv4Phases
        THEN IF phase \in standaloneEvents THEN <<>>
             ELSE <<Result("unknown htmx 4 event phase '" \o parts[1] \o "' in '"
                           \o eventName \o "'", filename, n, Warning)>>
        ELSE IF Len(parts) > 1 /\ parts[2] # "" /\ action \notin knownHTMXv4Actions
        THEN <<Result("unknown htmx 4 event action '" \o actionParts[1] \o "' in '"
                      \o eventName \o "'", filename, n, Warning)>>
        ELSE <<>>

\* the lookup done by exact match, without case folding
\* for validEvent := range knownHTMXv2Events, visiting the keys in the given
\* order: TRUE when the loop returns nil, FALSE when it runs to its end
RECURSIVE rangeKnownHTMXv2Events(_, _, _)
rangeKnownHTMXv2Events(order, i, eventName) ==
    IF i > Len(order) THEN FALSE
    ELSE IF EqualFold(eventName, order[i]) THEN TRUE
    ELSE rangeKnownHTMXv2Events(order, i + 1, eventName)

validateHTMXEventMut(r, filename, n, eventName) ==
    IF r.htmxVersion = "4" THEN validateHTMXv4Event(filename, n, eventName)
    ELSE IF eventName \in knownHTMXv2Events
    THEN <<>>
    ELSE <<Result("unknown htmx event '" \o eventName \o "'", filename, n, Warning)>>

\* the dispatch that reads an unset version as version 4
validateHTMXEventUnset(r, filename, n, eventName) ==
    IF r.htmxVersion \in {"4", ""} THEN validateHTMXv4Event(filename, n, eventName)
    ELSE IF \E validEvent \in knownHTMXv2Events : EqualFold(eventName, validEvent)
    THEN <<>>
    ELSE <<Result("unknown htmx event '" \o eventName \o "'", filename, n, Warning)>>

validateHTMXEvent(r, filename, n, eventName) ==
    IF r.htmxVersion = "4" THEN validateHTMXv4Event(filename, n, eventName)
    ELSE IF \E validEvent \in knownHTMXv2Events : EqualFold(eventName, validEvent)
    THEN <<>>
    ELSE <<Result("unknown htmx event '" \o eventName \o "'", filename, n, Warning)>>

\* the event name the attribute key carries, before the shorthand is expanded
hxOnEventName(attrKey) ==
    IF HasPrefix(attrKey, "hx-on:") THEN TrimPrefix(attrKey, "hx-on:")
    ELSE IF HasPrefix(attrKey, "hx-on-") THEN TrimPrefix(attrKey, "hx-on-")
    ELSE ""

\* the expansion with the namespace's colon written out a second time
expandShorthandMut(eventName) ==
    IF HasPrefix(eventName, ":") THEN "htmx:" \o eventName ELSE eventName

\* hx-on::event is shorthand for hx-on:htmx:event
expandShorthand(eventName) ==
    IF HasPrefix(eventName, ":") THEN "htmx" \o eventName ELSE eventName

validateHxOn(r, filename, n, attrKey) ==
    LET raw        == hxOnEventName(attrKey)
        eventName  == expandShorthand(raw)
        lowerEvent == ToLower(eventName)
    IN  IF raw = ""
        THEN <<Result("hx-on:* requires an event name", filename, n, Error)>>
        ELSE IF lowerEvent \in knownDOMEvents THEN <<>>
        ELSE IF HasPrefix(eventName, "htmx:") \/ HasPrefix(lowerEvent, "htmx:")
        THEN validateHTMXEvent(r, filename, n, eventName)
        ELSE <<Result("unknown event '" \o eventName
                      \o "' in hx-on:*; if this is a custom event, ignore this warning",
                      filename, n, Warning)>>

-----------------------------------------------------------------------------
(* validateJSON: encoding/json is outside the repository; json.Unmarshal is  *)
(* modelled on the JSON texts the model's documents carry, each with the     *)
(* offset of its syntax error (0 when the text is valid JSON).               *)

jsonSyntaxErrorOffset(value) ==
    CASE value = "{\"a\":1}" -> 0
      [] value = "{bad" -> 2
      [] value = "{" -> 1
      [] OTHER -> 1

RECURSIVE FormatInt(_)
FormatInt(k) ==
    IF k < 10 THEN At("0123456789", k + 1)
    ELSE FormatInt(k \div 10) \o At("0123456789", (k % 10) + 1)

simplifyJSONError(value) ==
    "syntax error at position " \o FormatInt(jsonSyntaxErrorOffset(value))

validateJSON(filename, n, attrName, value) ==
    IF value = "" THEN <<>>
    ELSE IF containsTemplate(value) THEN <<>>
    ELSE IF attrName = "hx-vals" /\ HasPrefix(value, "js:") THEN <<>>
    ELSE IF attrName = "hx-vals" /\ HasPrefix(value, "javascript:") THEN <<>>
    ELSE IF jsonSyntaxErrorOffset(value) # 0
    THEN <<Result(attrName \o " contains invalid JSON: " \o simplifyJSONError(value),
                  filename, n, Error)>>
    ELSE <<>>

-----------------------------------------------------------------------------
(* parser.Document and parser.Node: doc.nodes[id] is a node, 0 is nil *)

DocumentNode == "DocumentNode"

ElementNode == "ElementNode"

TextNode == "TextNode"

Node(type, data, attr, parent, line, col) ==
    [Type |-> type, Data |-> data, Attr |-> attr, Line |-> line, Col |-> col,
     Parent |-> parent, Children |-> <<>>]

\* Document.Walk and Node.walk: the nodes fn is called on, in call order;
\* stop is the set of nodes fn returns false for
RECURSIVE walk(_, _, _, _)
RECURSIVE walkChildren(_, _, _, _, _)
walk(d, id, stop, seen) ==
    IF id \in stop THEN [seen |-> Append(seen, id), ok |-> FALSE]
    ELSE walkChildren(d, d.nodes[id].Children, 1, stop, Append(seen, id))

\* the loop that goes on to the next sibling whatever the child's walk returned
RECURSIVE walkChildrenMut(_, _, _, _, _)
walkChildrenMut(d, children, i, stop, seen) ==
    IF i > Len(children) THEN [seen |-> seen, ok |-> TRUE]
    ELSE walkChildrenMut(d, children, i + 1, stop, walk(d, children[i], stop, seen).seen)

walkChildren(d, children, i, stop, seen) ==
    IF i > Len(children) THEN [seen |-> seen, ok |-> TRUE]
    ELSE LET w == walk(d, children[i], stop, seen)
         IN  IF ~w.ok THEN w
             ELSE walkChildren(d, children, i + 1, stop, w.seen)

Walk(d, stop) == IF d.Root # 0 THEN walk(d, d.Root, stop, <<>>).seen ELSE <<>>

\* Node.HasAttr
HasAttr(n, name) == \E i \in 1..Len(n.Attr) : EqualFold(n.Attr[i].Key, name)

\* Node.GetAttr: the value of the first attribute of that name, "" when none
RECURSIVE getAttrFrom(_, _, _)
getAttrFrom(attr, name, i) ==
    IF i > Len(attr) THEN ""
    ELSE IF EqualFold(attr[i].Key, name) THEN attr[i].Val
    ELSE getAttrFrom(attr, name, i + 1)

GetAttr(n, name) == getAttrFrom(n.Attr, name, 1)

\* Node.IsElement
IsElement(n, tag) == n.Type = ElementNode /\ EqualFold(n.Data, tag)

-----------------------------------------------------------------------------
(* ValidFor.Check *)

RuleValidFor == "valid-for"

labelableElements ==
    {"input", "textarea", "select", "button", "output", "meter", "progress"}

\* a value that came from a template directive: the placeholder the
\* preprocessor leaves, or the raw double-brace token
IsTemplateExpr(s) == Contains(s, "{{") \/ Contains(s, "TMPL")

\* the first Walk: id value |-> node, a later node replacing an earlier one
RECURSIVE idMapFrom(_, _, _, _)
idMapFrom(d, order, i, idMap) ==
    IF i > Len(order) THEN idMap
    ELSE LET n  == d.nodes[order[i]]
             id == GetAttr(n, "id")
         IN  IF n.Type = ElementNode /\ HasAttr(n, "id") /\ id # ""
             THEN idMapFrom(d, order, i + 1,
                            [x \in DOMAIN idMap \cup {id} |->
                                IF x = id THEN order[i] ELSE idMap[x]])
             ELSE idMapFrom(d, order, i + 1, idMap)

validForResult(message, filename, n) ==
    [Rule |-> RuleValidFor, Message |-> message, Filename |-> filename,
     Line |-> n.Line, Col |-> n.Col, Severity |-> Error]

\* the callback without its test for a hidden input
validForNodeMut(d, idMap, id) ==
    LET n       == d.nodes[id]
        forAttr == GetAttr(n, "for")
        tag     == ToLower(d.nodes[idMap[forAttr]].Data)
    IN  IF n.Type # ElementNode \/ ~IsElement(n, "label") THEN <<>>
        ELSE IF forAttr = "" THEN <<>>
        ELSE IF IsTemplateExpr(forAttr) THEN <<>>
        ELSE IF forAttr \notin DOMAIN idMap THEN <<>>
        ELSE IF tag \notin labelableElements
        THEN <<validForResult("label for attribute references non-labelable element <"
                              \o tag \o ">", d.Filename, n)>>
        ELSE <<>>

\* the callback of the second Walk: what one node appends to results
validForNode(d, idMap, id) ==
    LET n       == d.nodes[id]
        forAttr == GetAttr(n, "for")
        target  == d.nodes[idMap[forAttr]]
        tag     == ToLower(target.Data)
    IN  IF n.Type # ElementNode \/ ~IsElement(n, "label") THEN <<>>
        ELSE IF forAttr = "" THEN <<>>
        ELSE IF IsTemplateExpr(forAttr) THEN <<>>
        ELSE IF forAttr \notin DOMAIN idMap THEN <<>>
        ELSE IF tag \notin labelableElements
        THEN <<validForResult("label for attribute references non-labelable element <"
                              \o tag \o ">", d.Filename, n)>>
        ELSE IF tag = "input" /\ ToLower(GetAttr(target, "type")) = "hidden"
        THEN <<validForResult("label for attribute references hidden input", d.Filename, n)>>
        ELSE <<>>

RECURSIVE validForWalk(_, _, _, _, _)
validForWalk(d, idMap, order, i, res) ==
    IF i > Len(order) THEN res
    ELSE validForWalk(d, idMap, order, i + 1, res \o validForNode(d, idMap, order[i]))

ValidForCheck(d) ==
    LET order == Walk(d, {})
        idMap == idMapFrom(d, order, 1, <<>>)
    IN  validForWalk(d, idMap, order, 1, <<>>)

-----------------------------------------------------------------------------
(* Preprocessor: positions are 1-based; a matcher returns the index just     *)
(* past its match, 0 when it does not match                                  *)

IsAt(s, i, lit) == i + Len(lit) - 1 <= Len(s) /\ SubSeq(s, i, i + Len(lit) - 1) = lit

\* \s*
RECURSIVE skipSpace(_, _)
skipSpace(s, j) == IF j <= Len(s) /\ IsSpace(At(s, j)) THEN skipSpace(s, j + 1) ELSE j

\* -?
optDash(s, j) == IF IsAt(s, j, "-") THEN j + 1 ELSE j

\* [^}]*
RECURSIVE skipNonBrace(_, _)
skipNonBrace(s, j) == IF j <= Len(s) /\ At(s, j) # "}" THEN skipNonBrace(s, j + 1) ELSE j

\* \{\{-?\s*if\s[^}]*\}\} anchored at i
ifDirectiveAt(s, i) ==
    IF ~IsAt(s, i, "{{") THEN 0
    ELSE LET a == skipSpace(s, optDash(s, i + 2))
         IN  IF ~IsAt(s, a, "if") \/ a + 2 > Len(s) THEN 0
             ELSE IF ~IsSpace(At(s, a + 2)) THEN 0
             ELSE LET c == skipNonBrace(s, a + 3)
                  IN  IF IsAt(s, c, "}}") THEN c + 2 ELSE 0

\* \{\{-?\s*else\s*-?\}\} and \{\{-?\s*end\s*-?\}\} anchored at i
keywordDirectiveAt(s, i, keyword) ==
    IF ~IsAt(s, i, "{{") THEN 0
    ELSE LET a == skipSpace(s, optDash(s, i + 2))
         IN  IF ~IsAt(s, a, keyword) THEN 0
             ELSE LET b == optDash(s, skipSpace(s, a + Len(keyword)))
                  IN  IF IsAt(s, b, "}}") THEN b + 2 ELSE 0

\* the first index after i where "{{" begins, Len(s) + 1 when none: no
\* pattern of the preprocessor matches at an index in between
nextOpen(s, i) ==
    LET k == Index(SubSeq(s, i + 1, Len(s)), "{{")
    IN  IF k = -1 THEN Len(s) + 1 ELSE i + 1 + k

\* the first index from j on where the keyword directive matches, 0 when none
RECURSIVE findDirective(_, _, _)
findDirective(s, j, keyword) ==
    IF j > Len(s) THEN 0
    ELSE IF keywordDirectiveAt(s, j, keyword) # 0 THEN j
    ELSE findDirective(s, nextOpen(s, j), keyword)

\* ifElseEndPattern anchored at i: (.*?) runs to the first else directive,
\* .*? from there to the first end directive
ifElseEndAt(s, i) ==
    LET open   == ifDirectiveAt(s, i)
        else   == findDirective(s, open, "else")
        elseTo == keywordDirectiveAt(s, else, "else")
        end    == findDirective(s, elseTo, "end")
    IN  IF open = 0 THEN [to |-> 0, group |-> ""]
        ELSE IF else = 0 THEN [to |-> 0, group |-> ""]
        ELSE IF end = 0 THEN [to |-> 0, group |-> ""]
        ELSE [to |-> keywordDirectiveAt(s, end, "end"), group |-> SubSeq(s, open, else - 1)]

\* ifEndPattern anchored at i
ifEndAt(s, i) ==
    LET open == ifDirectiveAt(s, i)
        end  == findDirective(s, open, "end")
    IN  IF open = 0 THEN [to |-> 0, group |-> ""]
        ELSE IF end = 0 THEN [to |-> 0, group |-> ""]
        ELSE [to |-> keywordDirectiveAt(s, end, "end"), group |-> SubSeq(s, open, end - 1)]

\* ifElseEndPattern.ReplaceAll(input, "$1"): leftmost matches, one pass
RECURSIVE replaceIfElseEnd(_, _, _)
replaceIfElseEnd(s, i, out) ==
    IF i > Len(s) THEN out
    ELSE LET m == ifElseEndAt(s, i)
         IN  IF m.to # 0 THEN replaceIfElseEnd(s, m.to, out \o m.group)
             ELSE replaceIfElseEnd(s, nextOpen(s, i), out \o SubSeq(s, i, nextOpen(s, i) - 1))

\* ifEndPattern.ReplaceAll(processed, "$1")
RECURSIVE replaceIfEnd(_, _, _)
replaceIfEnd(s, i, out) ==
    IF i > Len(s) THEN out
    ELSE LET m == ifEndAt(s, i)
         IN  IF m.to # 0 THEN replaceIfEnd(s, m.to, out \o m.group)
             ELSE replaceIfEnd(s, nextOpen(s, i), out \o SubSeq(s, i, nextOpen(s, i) - 1))

replaceTemplate(match) ==
    LET content == TrimSpace(SubSeq(match, 3, Len(match) - 2))
    IN  IF HasPrefix(content, "/*") THEN ""
        ELSE IF HasPrefix(content, "if ") \/ HasPrefix(content, "if(")
                \/ content = "else" \/ HasPrefix(content, "else if") THEN ""
        ELSE IF HasPrefix(content, "end") THEN ""
        ELSE IF HasPrefix(content, "range ") THEN ""
        ELSE IF HasPrefix(content, "template ") \/ HasPrefix(content, "block ") THEN ""
        ELSE IF HasPrefix(content, "define ") THEN ""
        ELSE IF HasPrefix(content, "with ") THEN ""
        ELSE IF HasPrefix(content, "-") THEN ""
        ELSE "TMPL"

\* the replacement that takes an opening without a closer to run to the end
RECURSIVE replaceTemplatesMut(_, _, _)
replaceTemplatesMut(s, i, out) ==
    IF i > Len(s) THEN out
    ELSE LET close == Index(SubSeq(s, i + 2, Len(s)), "}}")
         IN  IF IsAt(s, i, "{{") /\ close # -1
             THEN replaceTemplatesMut(s, i + close + 4,
                                      out \o replaceTemplate(SubSeq(s, i, i + close + 3)))
             ELSE IF IsAt(s, i, "{{") THEN out
             ELSE replaceTemplatesMut(s, nextOpen(s, i),
                                      out \o SubSeq(s, i, nextOpen(s, i) - 1))

\* templatePattern \{\{[\s\S]*?\}\} with ReplaceAllFunc(replaceTemplate)
RECURSIVE replaceTemplates(_, _, _)
replaceTemplates(s, i, out) ==
    IF i > Len(s) THEN out
    ELSE LET close == Index(SubSeq(s, i + 2, Len(s)), "}}")
         IN  IF IsAt(s, i, "{{") /\ close # -1
             THEN replaceTemplates(s, i + close + 4,
                                   out \o replaceTemplate(SubSeq(s, i, i + close + 3)))
             ELSE replaceTemplates(s, nextOpen(s, i),
                                   out \o SubSeq(s, i, nextOpen(s, i) - 1))

\* the spans templatePattern hands to replaceTemplate, in order
RECURSIVE templateMatches(_, _, _)
templateMatches(s, i, acc) ==
    IF i > Len(s) THEN acc
    ELSE LET close == Index(SubSeq(s, i + 2, Len(s)), "}}")
         IN  IF IsAt(s, i, "{{") /\ close # -1
             THEN templateMatches(s, i + close + 4, Append(acc, SubSeq(s, i, i + close + 3)))
             ELSE templateMatches(s, nextOpen(s, i), acc)

\* match[2 : len(match)-2] panics when its low bound exceeds its high bound
slicePanics(match) == 2 > Len(match) - 2

\* Process cut short after its first substitution
ProcessFirstOnly(input) ==
    LET processed == replaceIfElseEnd(input, 1, "")
    IN  [processed |-> processed,
         sm |-> [Original |-> input, Processed |-> processed],
         err |-> "nil",
         panicked |-> FALSE]

Process(input) ==
    LET first     == replaceIfElseEnd(input, 1, "")
        second    == replaceIfEnd(first, 1, "")
        processed == replaceTemplates(second, 1, "")
        matches   == templateMatches(second, 1, <<>>)
    IN  [processed |-> processed,
         sm |-> [Original |-> input, Processed |-> processed],
         err |-> "nil",
         panicked |-> \E k \in 1..Len(matches) : slicePanics(matches[k])]

\* SourceMap.OriginalPosition
OriginalPosition(sm, line, col) == <<line, col>>

-----------------------------------------------------------------------------
(* UnrecognizedCharRef *)

RuleUnrecognizedCharRef == "unrecognized-character-reference"

Letters == DOMAIN LowerOf \cup {LowerOf[c] : c \in DOMAIN LowerOf}

IsAlnum(c) == c \in Letters \/ c \in Digits

\* the first index from j on that holds no letter or digit
RECURSIVE alnumEnd(_, _)
alnumEnd(s, j) ==
    IF j <= Len(s) /\ IsAlnum(At(s, j)) THEN alnumEnd(s, j + 1) ELSE j

\* namedCharRefPattern &([a-zA-Z][a-zA-Z0-9]*); anchored at the 1-based index
\* i: the index of its closing ';', 0 when it does not match there
namedCharRefAt(s, i) ==
    IF i + 1 <= Len(s) /\ At(s, i) = "&" /\ At(s, i + 1) \in Letters
    THEN LET e == alnumEnd(s, i + 2)
         IN  IF e <= Len(s) /\ At(s, e) = ";" THEN e ELSE 0
    ELSE 0

\* FindAllStringSubmatchIndex: leftmost, non-overlapping; each match is
\* <<match[0], match[1], match[2], match[3]>>, 0-based, ends exclusive
RECURSIVE findAllNamedCharRefs(_, _, _)
findAllNamedCharRefs(s, i, acc) ==
    IF i > Len(s) THEN acc
    ELSE LET e == namedCharRefAt(s, i)
         IN  IF e # 0
             THEN findAllNamedCharRefs(s, e + 1, Append(acc, <<i - 1, e, i, e - 1>>))
             ELSE findAllNamedCharRefs(s, i + 1, acc)

\* package html's entity table, as far as the inputs reach: names with their
\* ';', and the names HTML also accepts without it; a rune outside ASCII is
\* written by its code point
entity ==
    [x \in {"amp;", "amp", "lt;", "lt", "gt;", "gt", "quot;", "quot", "copy;", "copy",
            "not;", "not", "nbsp;", "nbsp", "mdash;", "notin;", "apos;"} |->
        CASE x \in {"amp;", "amp"} -> "&"
          [] x \in {"lt;", "lt"} -> "<"
          [] x \in {"gt;", "gt"} -> ">"
          [] x \in {"quot;", "quot"} -> "\""
          [] x \in {"copy;", "copy"} -> "U+00A9"
          [] x \in {"not;", "not"} -> "U+00AC"
          [] x \in {"nbsp;", "nbsp"} -> "U+00A0"
          [] x = "mdash;" -> "U+2014"
          [] x = "notin;" -> "U+2209"
          [] x = "apos;" -> "'"]

longestEntityWithoutSemicolon == 6

\* html.UnescapeString on a string that begins with '&' and holds no other:
\* the whole name, else the longest prefix of it that is an entity without ';'
RECURSIVE unescapePrefix(_, _, _)
unescapePrefix(s, entityName, j) ==
    IF j <= 1 THEN s
    ELSE IF SubSeq(entityName, 1, j) \in DOMAIN entity
    THEN entity[SubSeq(entityName, 1, j)] \o SubSeq(s, j + 2, Len(s))
    ELSE unescapePrefix(s, entityName, j - 1)

UnescapeString(s) ==
    LET e          == alnumEnd(s, 2)
        i          == IF e <= Len(s) /\ At(s, e) = ";" THEN e ELSE e - 1
        entityName == SubSeq(s, 2, i)
        maxLen     == IF Len(entityName) - 1 > longestEntityWithoutSemicolon
                      THEN longestEntityWithoutSemicolon ELSE Len(entityName) - 1
    IN  IF Len(s) <= 1 \/ At(s, 2) = "#" \/ entityName = "" THEN s
        ELSE IF entityName \in DOMAIN entity
        THEN entity[entityName] \o SubSeq(s, i + 1, Len(s))
        ELSE unescapePrefix(s, entityName, maxLen)

\* the loop for i := 0; i < len(line)-1 && i < pos; i++
RECURSIVE templateDepth(_, _, _, _)
templateDepth(line, pos, i, depth) ==
    IF ~(i < Len(line) - 1 /\ i < pos) THEN depth
    ELSE IF At(line, i + 1) = "{" /\ At(line, i + 2) = "{"
    THEN templateDepth(line, pos, i + 2, depth + 1)
    ELSE IF At(line, i + 1) = "}" /\ At(line, i + 2) = "}"
    THEN templateDepth(line, pos, i + 2, depth - 1)
    ELSE templateDepth(line, pos, i + 1, depth)

isInsideTemplateExpr(line, pos) == templateDepth(line, pos, 0, 0) > 0

\* the body of the loop over matches: what one match appends to results
charRefMatch(filename, lineNum, lineStr, match) ==
    LET fullRef == SubSeq(lineStr, match[1] + 1, match[2])
        name    == SubSeq(lineStr, match[3] + 1, match[4])
    IN  IF isInsideTemplateExpr(lineStr, match[1]) THEN <<>>
        ELSE IF UnescapeString(fullRef) = fullRef
        THEN <<[Rule |-> RuleUnrecognizedCharRef,
                Message |-> "unrecognized character reference &" \o name \o ";",
                Filename |-> filename, Line |-> lineNum + 1, Col |-> match[1] + 1,
                Severity |-> Warning]>>
        ELSE <<>>

RECURSIVE charRefMatches(_, _, _, _, _, _)
charRefMatches(filename, lineNum, lineStr, matches, k, res) ==
    IF k > Len(matches) THEN res
    ELSE charRefMatches(filename, lineNum, lineStr, matches, k + 1,
                        res \o charRefMatch(filename, lineNum, lineStr, matches[k]))

\* for lineNum, line := range lines (lineNum is 0-based)
RECURSIVE charRefLines(_, _, _, _)
charRefLines(filename, lines, lineNum, res) ==
    IF lineNum >= Len(lines) THEN res
    ELSE LET lineStr == lines[lineNum + 1]
         IN  charRefLines(filename, lines, lineNum + 1,
                          charRefMatches(filename, lineNum, lineStr,
                                         findAllNamedCharRefs(lineStr, 1, <<>>), 1, res))

CheckRaw(filename, content) == charRefLines(filename, Split(content, "\n"), 0, <<>>)

\* UnrecognizedCharRef.Check: the tree check of a rule that works on raw bytes
UnrecognizedCharRefCheck(d) == <<>>

-----------------------------------------------------------------------------
(* checkSubmitButtonInForm *)

\* the value of the first attribute named type, lowercased; "" when none
RECURSIVE buttonType(_, _)
buttonType(attr, i) ==
    IF i > Len(attr) THEN ""
    ELSE IF ToLower(attr[i].Key) = "type" THEN ToLower(attr[i].Val)
    ELSE buttonType(attr, i + 1)

isSubmitButton(n, nodeName) ==
    IF nodeName = "button"
    THEN buttonType(n.Attr, 1) \in {"", "submit"}
    ELSE IF nodeName = "input"
    THEN \E i \in 1..Len(n.Attr) :
            ToLower(n.Attr[i].Key) = "type" /\ ToLower(n.Attr[i].Val) = "submit"
    ELSE FALSE

RECURSIVE isInsideFormFrom(_, _)
isInsideFormFrom(d, parent) ==
    IF parent = 0 THEN FALSE
    ELSE IF d.nodes[parent].Type = ElementNode /\ ToLower(d.nodes[parent].Data) = "form"
    THEN TRUE
    ELSE isInsideFormFrom(d, d.nodes[parent].Parent)

\* the test made on the immediate parent alone
isInsideFormMut(d, id) ==
    LET parent == d.nodes[id].Parent
    IN  parent # 0 /\ d.nodes[parent].Type = ElementNode
        /\ ToLower(d.nodes[parent].Data) = "form"

isInsideForm(d, id) == isInsideFormFrom(d, d.nodes[id].Parent)

\* the last request attribute of the element, "" when it has none
RECURSIVE requestAttr(_, _, _)
requestAttr(attr, i, found) ==
    IF i > Len(attr) THEN found
    ELSE requestAttr(attr, i + 1,
            IF ToLower(attr[i].Key) \in {"hx-get", "hx-post", "hx-put", "hx-patch", "hx-delete"}
            THEN ToLower(attr[i].Key) ELSE found)

\* a sequence of zero or one Result stands for the *Result the code returns
checkSubmitButtonInForm(filename, d, id) ==
    LET n == d.nodes[id]
    IN  IF ~isSubmitButton(n, ToLower(n.Data)) THEN <<>>
        ELSE IF requestAttr(n.Attr, 1, "") = "" THEN <<>>
        ELSE IF ~isInsideForm(d, id) THEN <<>>
        ELSE <<Result(requestAttr(n.Attr, 1, "")
                      \o " on submit button inside form may bypass form validation; consider moving to the form element",
                      filename, n, Warning)>>

-----------------------------------------------------------------------------
(* HTMXAttributes.Check *)

\* the switch on the attribute name
checkAttr(r, filename, n, attr) ==
    LET attrName == ToLower(attr.Key)
    IN  IF ~HasPrefix(attrName, "hx-") THEN <<>>
        ELSE IF attrName = "hx-swap" THEN validateSwap(r, filename, n, attr.Val)
        ELSE IF attrName = "hx-trigger" THEN validateTrigger(filename, n, attr.Val)
        ELSE IF attrName = "hx-target" THEN validateTarget(filename, n, attr.Val)
        ELSE IF HasPrefix(attrName, "hx-on:") \/ HasPrefix(attrName, "hx-on-")
        THEN validateHxOn(r, filename, n, attr.Key)
        ELSE IF attrName = "hx-vals" \/ attrName = "hx-headers"
        THEN validateJSON(filename, n, attrName, attr.Val)
        ELSE <<>>

\* the loop that puts each attribute's diagnostics in front of the earlier ones
RECURSIVE checkAttrsMut(_, _, _, _, _)
checkAttrsMut(r, filename, n, i, res) ==
    IF i > Len(n.Attr) THEN res
    ELSE checkAttrsMut(r, filename, n, i + 1, checkAttr(r, filename, n, n.Attr[i]) \o res)

\* for _, attr := range n.Attr
RECURSIVE checkAttrs(_, _, _, _, _)
checkAttrs(r, filename, n, i, res) ==
    IF i > Len(n.Attr) THEN res
    ELSE checkAttrs(r, filename, n, i + 1, res \o checkAttr(r, filename, n, n.Attr[i]))

\* the callback handed to doc.Walk: what one node appends to results
checkNode(r, d, id) ==
    IF d.nodes[id].Type # ElementNode THEN <<>>
    ELSE checkAttrs(r, d.Filename, d.nodes[id], 1, <<>>)
         \o checkSubmitButtonInForm(d.Filename, d, id)

RECURSIVE checkWalk(_, _, _, _, _)
checkWalk(r, d, order, i, res) ==
    IF i > Len(order) THEN res
    ELSE checkWalk(r, d, order, i + 1, res \o checkNode(r, d, order[i]))

\* Check without its htmxEnabled guard
CheckUngated(r, d) == checkWalk(r, d, Walk(d, {}), 1, <<>>)

Check(r, d) ==
    IF ~r.htmxEnabled THEN <<>>
    ELSE checkWalk(r, d, Walk(d, {}), 1, <<>>)

-----------------------------------------------------------------------------
(* Bounds and the inputs drawn within them *)

MaxElems == 2       \* nodes parsed into a document, besides its root

MaxSwapMods == 2    \* modifier tokens in a generated hx-swap value

MaxTriggerSpecs == 2  \* comma-separated specs in a generated hx-trigger value

MaxNest == 2        \* if ... else ... end blocks nested in one another

MaxRawSegs == 3     \* segments joined into a raw input

MaxLabelElems == 3  \* nodes parsed into a document of labels, besides its root

MaxFormElems == 3   \* nodes parsed into a document of form controls, besides its root

Versions == {"", "2", "4", "3"}

Filename == "test.html"

\* the element a validate* call reports against
attrNode == Node(ElementNode, "div", <<>>, 0, 1, 1)

SeqsUpTo(S, k) == UNION {[1..m -> S] : m \in 0..k}

\* every element of seq prefixed by sep, concatenated
RECURSIVE JoinWith(_, _)
JoinWith(seq, sep) ==
    IF seq = <<>> THEN "" ELSE sep \o Head(seq) \o JoinWith(Tail(seq), sep)

Attr(key, val) == [Key |-> key, Val |-> val]

\* what the HTML parser can hand the builder: elements and a text run
NodeTemplates ==
    { [Type |-> ElementNode, Data |-> "div",
       Attr |-> <<Attr("hx-get", "/api"), Attr("hx-swap", "invalid")>>],
      [Type |-> ElementNode, Data |-> "div",
       Attr |-> <<Attr("hx-trigger", "every"), Attr("hx-target", "bad selector")>>],
      [Type |-> ElementNode, Data |-> "button",
       Attr |-> <<Attr("hx-on:htmx:nope", "x()"), Attr("hx-post", "/api")>>],
      [Type |-> ElementNode, Data |-> "form",
       Attr |-> <<Attr("hx-swap", "textContent")>>],
      [Type |-> ElementNode, Data |-> "input",
       Attr |-> <<Attr("type", "submit"), Attr("hx-vals", "{bad"), Attr("hx-delete", "/x")>>],
      [Type |-> ElementNode, Data |-> "div",
       Attr |-> <<Attr("class", "a"), Attr("hx-swap", "innerHTML swap:1s")>>],
      [Type |-> TextNode, Data |-> "content", Attr |-> <<>>] }

\* forms, wrappers and the controls that may or may not submit them
FormTemplates ==
    { [Type |-> ElementNode, Data |-> "form", Attr |-> <<Attr("action", "/s")>>],
      [Type |-> ElementNode, Data |-> "div", Attr |-> <<Attr("hx-get", "/d")>>],
      [Type |-> ElementNode, Data |-> "button", Attr |-> <<Attr("hx-post", "/a")>>],
      [Type |-> ElementNode, Data |-> "button",
       Attr |-> <<Attr("type", "button"), Attr("hx-post", "/a")>>],
      [Type |-> ElementNode, Data |-> "input",
       Attr |-> <<Attr("type", "Submit"), Attr("hx-get", "/a"), Attr("hx-delete", "/b")>>],
      [Type |-> ElementNode, Data |-> "button",
       Attr |-> <<Attr("type", ""), Attr("class", "btn")>>],
      [Type |-> ElementNode, Data |-> "input",
       Attr |-> <<Attr("type", "text"), Attr("hx-put", "/a")>>] }

\* attribute values that would each draw a diagnostic, and the sentinels
SentinelAttrs == {"hx-swap", "hx-trigger", "hx-target", "hx-vals", "hx-headers", "HX-Swap"}

SentinelBases == {"invalid", "every", "bad selector", "{bad", "innerHTML nocolon"}

SentinelMarks == {"{{", "TMPL", "{{ .X }}", "{{if .A}}", "", "tmpl", "{ {", "TMP"}

SentinelValues ==
    {m \o b : m \in SentinelMarks, b \in SentinelBases}
    \cup {b \o m : m \in SentinelMarks, b \in SentinelBases}
    \cup {b \o " " \o m \o " " \o b : m \in SentinelMarks, b \in {"invalid", "{bad"}}

\* labels and the elements their for attributes may name
LabelTemplates ==
    { [Type |-> ElementNode, Data |-> "label", Attr |-> <<Attr("for", "a")>>],
      [Type |-> ElementNode, Data |-> "LABEL",
       Attr |-> <<Attr("class", "l"), Attr("FOR", "b")>>],
      [Type |-> ElementNode, Data |-> "label", Attr |-> <<Attr("for", "TMPL")>>],
      [Type |-> ElementNode, Data |-> "label", Attr |-> <<Attr("for", "")>>],
      [Type |-> ElementNode, Data |-> "input",
       Attr |-> <<Attr("type", "text"), Attr("id", "a")>>],
      [Type |-> ElementNode, Data |-> "input",
       Attr |-> <<Attr("id", "a"), Attr("type", "Hidden")>>],
      [Type |-> ElementNode, Data |-> "div", Attr |-> <<Attr("id", "a")>>],
      [Type |-> ElementNode, Data |-> "textarea", Attr |-> <<Attr("ID", "b")>>],
      [Type |-> ElementNode, Data |-> "span", Attr |-> <<Attr("id", "TMPL")>>],
      [Type |-> TextNode, Data |-> "a", Attr |-> <<>>] }

\* raw bytes: character references, template braces, text and line breaks
RawSegs ==
    {"&amp;", "&foobar;", "&notit;", "&#8212;", "&#x2014;", "&copy;", "{{", "}}",
     "\n", " x"}

RECURSIVE Concat(_)
Concat(seq) == IF seq = <<>> THEN "" ELSE Head(seq) \o Concat(Tail(seq))

\* lines where other braces come before a reference inside a template expression
BraceLines ==
    {"}} {{ &foobar; }}", "{{ .A }} {{ &foobar; }}", "{{{ &foobar; }}", "{ {{ &foobar; }}",
     "{{ .A }} }} {{ &foobar; }}", "}}}{{&foobar;}}", "{{ {{ }} &foobar; }}",
     "{{ &foobar; }} &foobar;", "a\n}} {{ .A &foobar; }} &foobar;\n{{ &amp; }}",
     "{{ &foobar; ", "} } {{ &foobar; &copy; }}", "{{ .A }}{{ .B }} {{ &foobar; }}"}

RawInputs == {Concat(seq) : seq \in SeqsUpTo(RawSegs, MaxRawSegs)} \cup BraceLines

\* template sources: if ... else ... end blocks, flat and nested, and single
\* directive spans between two text runs
IfSpellings == {"{{if .a}}", "{{- if .a -}}", "{{ if eq .a 1 }}"}

ElseSpellings == {"{{else}}", "{{- else -}}"}

EndSpellings == {"{{end}}", "{{ end }}"}

FlatBlockInputs ==
    {i \o t \o e \o u \o n :
        i \in IfSpellings, t \in {"A", "A\n", "\nA\n"}, e \in ElseSpellings,
        u \in {"B", "\nB\n", "B\nC"}, n \in EndSpellings}

\* blocks nested d deep, the inner block in the if-branch or in the else-branch
\* of the outer one; each branch has a letter of its own
RECURSIVE NestedBlocks(_)
NestedBlocks(d) ==
    IF d = 0 THEN {""}
    ELSE LET t == At(UpperLetters, 2 * d - 1)
             u == At(UpperLetters, 2 * d)
         IN  {"{{if .a}}" \o t \o inner \o "{{else}}" \o u \o "{{end}}" :
                  inner \in NestedBlocks(d - 1)}
             \cup {"{{if .a}}" \o t \o "{{else}}" \o inner \o u \o "{{end}}" :
                       inner \in NestedBlocks(d - 1)}

IfElseInputs == FlatBlockInputs \cup UNION {NestedBlocks(d) : d \in 1..MaxNest}

SpanContents ==
    {".Field", "printf \"%s\" .x", "$x := .y", "len .items", "break",
     "index .m \"if\"", "\n.Field\n", "/* note */", "if .a", "if(.a)", "else",
     "else if .b", "else with .c", "end", "range .items", "with .x",
     "block \"b\" .", "define \"d\"", "template \"t\" .", "endTime .e"}

SpanInputs ==
    {"x" \o open \o c \o close \o "y" :
        open \in {"{{", "{{ ", "{{- "}, c \in SpanContents, close \in {"}}", " }}", " -}}"}}

\* unbalanced and malformed directive syntax
MalformedInputs ==
    {"{{}}", "{{", "}}", "{{{", "{{ }", "}}{{", "a {{ b", "{{if", "{{if .a}}A",
     "{{end}}", "{{else}}", "{{if .a}}A{{else}}B", "{{if .a}}A{{end}} {{ b",
     "{{ .X }} {{ .Y", "{{{if .a}}{ .X }}{{end}}", "{{{end}}{ .X }}", "{{ {{x}}}}",
     "{{{{x}}}}", "{{ .X }}{{\n", "{{if .a}}{{{{end}}", "{{if }}{{else}}{{end}}{{",
     "{{-}}", "{{ - }} {"}

ProcessInputs ==
    IfElseInputs \cup SpanInputs \cup MalformedInputs
    \cup {"", "plain <p>text</p>\n", "{{if .a}}A{{end}}", "{{range .i}}A\n{{end}}",
          "<a href=\"{{ .URL }}\">{{ .Name }}</a>\n", "{{if .a}}A{{else if .b}}B{{else}}C{{end}}",
          "a {{ b", "{{ .X\n }}\n"}

SwapStrategies ==
    {"innerHTML", "outerhtml", "BEFOREEND", "delete", "none", "textContent",
     "Upsert", "invalid", "inner"}

SwapModNames ==
    {"swap", "Settle", "scroll", "show", "focus-scroll", "transition",
     "ignoreTitle", "bogus", ""}

SwapModValues ==
    {"1s", "500ms", "10m", "s", "1", "", "1.5s", "-1s", "1s:2", "top", "BOTTOM",
     "#id", "middle", "true", "false", "TRUE"}

SwapTokens ==
    {name \o ":" \o val : name \in SwapModNames, val \in SwapModValues}
    \cup {"notamodifier", "swap"}

SwapSeqTokens == {"swap:1s", "settle:bad", "notamodifier", "bogus:1", "show:left"}

SwapInputs ==
    {"innerHTML " \o tok : tok \in SwapTokens}
    \cup {s \o JoinWith(seq, " ") : s \in SwapStrategies,
                                    seq \in SeqsUpTo(SwapSeqTokens, MaxSwapMods)}
    \cup {"", "   ", " innerHTML\tswap:1s \n", "{{ .SwapMode }}", "innerHTML TMPL",
          "invalid {{x}}"}

TriggerModNames ==
    {"delay", "Throttle", "queue", "once", "changed", "from", "target", "consume", "bogus"}

TriggerModValues ==
    {"1s", "500ms", "bad", "", "2", "first", "LAST", "all", "none", "invalid", "body"}

TriggerTokens ==
    TriggerModNames \cup {name \o ":" \o val : name \in TriggerModNames,
                                               val \in TriggerModValues}

FilterExprs ==
    {"ctrlKey", "ctrlKey&&shiftKey", "ctrlKey && shiftKey", "key=='Enter'",
     "a,b", "f(a, b)", ""}

FilterInputs ==
    {ev \o sep \o "[" \o e \o "]" : ev \in {"click", "keyup"}, sep \in {"", " "},
                                    e \in FilterExprs}

TriggerSeqSpecs ==
    {"click", "every", " keyup delay:bad", "click queue:last ", "", "intersect foo"}

TriggerInputs ==
    {"click " \o tok : tok \in TriggerTokens}
    \cup FilterInputs
    \cup {"every", "every 2s", "Every 500ms", "every bad", "every 2", "EVERY s",
          "every 1s extra", "every  10ms", "every delay:1s",
          "intersect", "intersect once", "intersect threshold:0.5 root:#a",
          "revealed", "click once delay:1s", "click[ctrlKey] delay:1s",
          "   ", "{{ .Trigger }}", "click TMPL"}
    \cup {SubSeq(JoinWith(seq, ","), 2, Len(JoinWith(seq, ","))) :
              seq \in SeqsUpTo(TriggerSeqSpecs, MaxTriggerSpecs)}

TargetInputs ==
    {"this", "next", "previous", "body", "THIS", "#result", ".result", "div",
     "unknownword", "my-element", "div.item", " this ", "find\t.x",
     "{{ .Target }}", "TMPL", ""}
    \cup {kw \o " " \o sel :
            kw \in {"closest", "find", "next", "previous", "Closest", "this", "body",
                    "invalid", "#result", "div", ".cls", "foo", "div.x"},
            sel \in {"div", ".result", "#id", "li a"}}

HxOnNames ==
    {"click", "Click", "load", "error", "KEYDOWN", "customEvent", "my-event",
     "afterRequest", "afterrequest", "unknownEvent", "abort", "xhr:abort",
     "validation:failed", "after:request", "after:unknownAction", "before", "",
     "after:onLoad", "before:viewTransition", "error:historyUpdate",
     "finally:historySave", "after:onload", "after:swap:extra", "Before:Swap",
     "finally", "nope:request", "trigger", "load:extra", "before:", "after:sse"}

HxOnInputs ==
    {prefix \o ns \o name : prefix \in {"hx-on:", "hx-on-"},
                            ns \in {"", "htmx:", ":", "HTMX:"},
                            name \in HxOnNames}

-----------------------------------------------------------------------------
(* The rule under a linter: configure, parse, check *)

rule == [htmxEnabled |-> htmxEnabled, htmxVersion |-> htmxVersion]

\* ParseFragment's synthetic root, before any child is built
EmptyDocument ==
    [Root |-> 1, Filename |-> Filename, IsTemplateFragment |-> FALSE,
     nodes |-> <<Node(DocumentNode, "", <<>>, 0, 1, 1)>>]

Init ==
    /\ htmxEnabled = FALSE
    /\ htmxVersion = ""
    /\ doc = EmptyDocument
    /\ op = "New"
    /\ arg = ""
    /\ results = <<>>

Configure(enabled, version) ==
    /\ htmxEnabled' = enabled
    /\ htmxVersion' = version
    /\ op' = "Configure"
    /\ results' = <<>>
    /\ UNCHANGED <<doc, arg>>

\* buildNodeTree on one parsed node: the new node takes its parent's position
\* and is appended to the parent's children
buildNodeTree(parent, t) ==
    /\ doc.nodes[parent].Type # TextNode
    /\ LET id == Len(doc.nodes) + 1
           p  == doc.nodes[parent]
           n  == Node(t.Type, t.Data, t.Attr, parent, p.Line, p.Col)
       IN  doc' = [doc EXCEPT
                     !.nodes = Append([@ EXCEPT ![parent].Children = Append(@, id)], n)]
    /\ op' = "Parse"
    /\ results' = <<>>
    /\ UNCHANGED <<htmxEnabled, htmxVersion, arg>>

BuildNode(parent, t) ==
    /\ Len(doc.nodes) <= MaxElems
    /\ buildNodeTree(parent, t)

RunCheck ==
    /\ results' = Check(rule, doc)
    /\ op' = "Check"
    /\ UNCHANGED <<htmxEnabled, htmxVersion, doc, arg>>

Next ==
    \/ \E enabled \in BOOLEAN, version \in Versions : Configure(enabled, version)
    \/ \E parent \in 1..Len(doc.nodes), t \in NodeTemplates : BuildNode(parent, t)
    \/ RunCheck

Spec == Init /\ [][Next]_vars

-----------------------------------------------------------------------------
(* Check applied to documents of forms and form controls *)

InitForm ==
    /\ htmxEnabled = TRUE
    /\ htmxVersion \in {"2", "4"}
    /\ doc = EmptyDocument
    /\ op = "New"
    /\ arg = ""
    /\ results = <<>>

BuildFormNode(parent, t) ==
    /\ Len(doc.nodes) <= MaxFormElems
    /\ buildNodeTree(parent, t)

NextForm ==
    \/ \E parent \in 1..Len(doc.nodes), t \in FormTemplates : BuildFormNode(parent, t)
    \/ RunCheck

SpecForm == InitForm /\ [][NextForm]_vars

-----------------------------------------------------------------------------
(* ValidFor.Check applied to documents of labels and their targets *)

BuildLabelNode(parent, t) ==
    /\ Len(doc.nodes) <= MaxLabelElems
    /\ buildNodeTree(parent, t)

RunValidFor ==
    /\ results' = ValidForCheck(doc)
    /\ op' = "ValidFor"
    /\ UNCHANGED <<htmxEnabled, htmxVersion, doc, arg>>

NextValidFor ==
    \/ \E parent \in 1..Len(doc.nodes), t \in LabelTemplates : BuildLabelNode(parent, t)
    \/ RunValidFor

SpecValidFor == Init /\ [][NextValidFor]_vars

-----------------------------------------------------------------------------
(* Preprocessor.Process applied to the generated template sources; results   *)
(* holds what Process returns                                                *)

InitProcess ==
    /\ htmxEnabled = FALSE
    /\ htmxVersion = ""
    /\ doc = EmptyDocument
    /\ op = "Input"
    /\ arg \in ProcessInputs
    /\ results = <<>>

CallProcess ==
    /\ op = "Input"
    /\ results' = Process(arg)
    /\ op' = "Process"
    /\ UNCHANGED <<htmxEnabled, htmxVersion, doc, arg>>

NextProcess == CallProcess

SpecProcess == InitProcess /\ [][NextProcess]_vars

-----------------------------------------------------------------------------
(* Parse and ParseFragment. The HTML parser's output is a forest of html     *)
(* nodes in document order: h[k].up is the index of the k-th node's parent,  *)
(* 0 for a top-level node, so FirstChild/NextSibling order is index order    *)

MaxParsed == 3

\* what the HTML parser can produce for one node
ParsedTemplates ==
    { [Type |-> ElementNode, Data |-> "div",
       Attr |-> <<Attr("id", "a"), Attr("hx-swap", "invalid")>>],
      [Type |-> ElementNode, Data |-> "label", Attr |-> <<Attr("for", "a")>>],
      [Type |-> TextNode, Data |-> "content", Attr |-> <<>>] }

\* the html nodes from k up to the top of the forest
RECURSIVE htmlAncestors(_, _)
htmlAncestors(h, k) == IF k = 0 THEN {} ELSE {k} \cup htmlAncestors(h, h[k].up)

\* document order: a node's parent is an element on the path to the node before it
HtmlForestsOf(templates, n) ==
    {h \in SeqsUpTo([t : templates, up : 0..(n - 1)], n) :
        \A k \in 1..Len(h) :
            \/ h[k].up = 0
            \/ /\ k > 1
               /\ h[k].up \in htmlAncestors(h, k - 1)
               /\ h[h[k].up].t.Type = ElementNode}

HtmlForests == HtmlForestsOf(ParsedTemplates, MaxParsed)

\* n.FirstChild, then NextSibling: the children of html node k in order
RECURSIVE htmlChildren(_, _, _)
htmlChildren(h, k, from) ==
    IF from > Len(h) THEN <<>>
    ELSE IF h[from].up = k THEN <<from>> \o htmlChildren(h, k, from + 1)
    ELSE htmlChildren(h, k, from + 1)

\* buildNodeTree(n, parent) on html node k of h; nodes holds the Nodes
\* allocated so far, parent = 0 is nil; returns the new Node's id
RECURSIVE buildNodeTreeRec(_, _, _, _)
RECURSIVE buildChildren(_, _, _, _, _)
\* a builder that takes each node's position from its place in the input
buildNodeTreeMeasured(h, k, parent, nodes) ==
    LET id   == Len(nodes) + 1
        node == Node(h[k].t.Type, h[k].t.Data, h[k].t.Attr, parent, k + 1, 1)
    IN  [id |-> id,
         nodes |-> buildChildren(h, htmlChildren(h, k, 1), 1, id, Append(nodes, node))]

buildNodeTreeRec(h, k, parent, nodes) ==
    LET line == IF parent # 0 THEN nodes[parent].Line ELSE 1
        col  == IF parent # 0 THEN nodes[parent].Col ELSE 1
        id   == Len(nodes) + 1
        node == Node(h[k].t.Type, h[k].t.Data, h[k].t.Attr, parent, line, col)
    IN  [id |-> id,
         nodes |-> buildChildren(h, htmlChildren(h, k, 1), 1, id, Append(nodes, node))]

\* the loop that builds each child without appending it to Children
RECURSIVE buildChildrenMut(_, _, _, _, _)
buildChildrenMut(h, kids, i, id, nodes) ==
    IF i > Len(kids) THEN nodes
    ELSE buildChildrenMut(h, kids, i + 1, id, buildNodeTreeRec(h, kids[i], id, nodes).nodes)

\* the loop over the html children: build each and append it to Children
buildChildren(h, kids, i, id, nodes) ==
    IF i > Len(kids) THEN nodes
    ELSE LET child == buildNodeTreeRec(h, kids[i], id, nodes)
         IN  buildChildren(h, kids, i + 1, id,
                           [child.nodes EXCEPT ![id].Children = Append(@, child.id)])

\* html.Parse returns one document node above everything it parsed
htmlDocument(h) ==
    <<[t |-> [Type |-> DocumentNode, Data |-> "", Attr |-> <<>>], up |-> 0]>>
    \o [k \in 1..Len(h) |-> [t |-> h[k].t, up |-> h[k].up + 1]]

\* Parse, given what html.Parse returned for the processed content
Parse(filename, content, h) ==
    LET pre  == Process(content)
        root == buildNodeTreeRec(htmlDocument(h), 1, 0, <<>>)
    IN  [Root |-> root.id, Filename |-> filename, IsTemplateFragment |-> FALSE,
         sourceMap |-> pre.sm, nodes |-> root.nodes]

isTemplateFragment(content) == HasPrefix(TrimSpace(content), "{{define")

\* ParseFragment, given what html.ParseFragment returned for the processed content
ParseFragment(filename, content, h) ==
    LET pre           == Process(content)
        syntheticRoot == Node(DocumentNode, "", <<>>, 0, 1, 1)
    IN  [Root |-> 1, Filename |-> filename,
         IsTemplateFragment |-> isTemplateFragment(content),
         sourceMap |-> pre.sm,
         nodes |-> buildChildren(h, htmlChildren(h, 0, 1), 1, 1, <<syntheticRoot>>)]

\* files that do and do not open with a fragment definition
FragmentInputs ==
    {"{{define \"row\"}}<tr></tr>{{end}}", "\n  {{define \"row\"}}<tr></tr>{{end}}",
     "{{ define \"row\" }}<tr></tr>{{ end }}", "{{- define \"row\" -}}<tr></tr>{{- end -}}",
     "{{defined .x}}<p></p>", "{{define", "{{define\t\"row\"}}<b></b>{{end}}",
     "<div>{{define \"row\"}}</div>{{end}}", "{{/* c */}}{{define \"r\"}}{{end}}",
     "<p>text</p>", ""}

\* a Document whose Root is nil
NilDocument ==
    [Root |-> 0, Filename |-> Filename, IsTemplateFragment |-> FALSE, nodes |-> <<>>]

InitParse ==
    /\ htmxEnabled = TRUE
    /\ htmxVersion = "2"
    /\ doc = NilDocument
    /\ op = "Input"
    /\ arg \in FragmentInputs
    /\ results = <<>>

CallParse ==
    /\ op = "Input"
    /\ \E h \in HtmlForests : doc' = Parse(Filename, arg, h)
    /\ op' = "Parse"
    /\ UNCHANGED <<htmxEnabled, htmxVersion, arg, results>>

CallParseFragment ==
    /\ op = "Input"
    /\ \E h \in HtmlForests : doc' = ParseFragment(Filename, arg, h)
    /\ op' = "ParseFragment"
    /\ UNCHANGED <<htmxEnabled, htmxVersion, arg, results>>

\* Document.Walk with a callback that returns false on the nodes of stop
CallWalk ==
    /\ \E stop \in {{}} \cup {{id} : id \in 1..Len(doc.nodes)} :
          results' = [seen |-> Walk(doc, stop), stop |-> stop]
    /\ op' = "Walk"
    /\ UNCHANGED <<htmxEnabled, htmxVersion, doc, arg>>

NextParse ==
    \/ CallParse
    \/ CallParseFragment
    \/ CallWalk
    \/ RunCheck
    \/ RunValidFor

SpecParse == InitParse /\ [][NextParse]_vars

-----------------------------------------------------------------------------
(* HTMXAttributes.Check on fragments whose elements carry several htmx       *)
(* attributes, several tokens in one attribute, and nested submit buttons    *)

OrderTemplates ==
    { [Type |-> ElementNode, Data |-> "form",
       Attr |-> <<Attr("hx-swap", "innerHTML swap:bad bogus:1 notamodifier"),
                  Attr("class", "f"),
                  Attr("hx-on:htmx:AFTERrequest", "x()")>>],
      [Type |-> ElementNode, Data |-> "button",
       Attr |-> <<Attr("hx-vals", "{bad"), Attr("hx-post", "/a"),
                  Attr("hx-on::nope", "x()")>>],
      [Type |-> ElementNode, Data |-> "div",
       Attr |-> <<Attr("hx-trigger", "every, click delay:bad queue:x ,keyup throttle:1"),
                  Attr("hx-target", "bad selector")>>] }

InitOrder ==
    /\ htmxEnabled = TRUE
    /\ htmxVersion \in {"2", "4"}
    /\ doc = NilDocument
    /\ op = "Input"
    /\ arg = ""
    /\ results = <<>>

ParseOrdered ==
    /\ op = "Input"
    /\ \E h \in HtmlForestsOf(OrderTemplates, MaxParsed) :
          doc' = ParseFragment(Filename, arg, h)
    /\ op' = "ParseFragment"
    /\ UNCHANGED <<htmxEnabled, htmxVersion, arg, results>>

NextOrder ==
    \/ ParseOrdered
    \/ RunCheck

SpecOrder == InitOrder /\ [][NextOrder]_vars

-----------------------------------------------------------------------------
(* The static element tables: of an ElementSpec the fields VoidElement and   *)
(* PermittedContent are kept; a map lookup of an absent key gives the zero   *)
(* value                                                                     *)

\* the table without the deprecated param
VoidElementsMut ==
    {"area", "base", "br", "col", "embed", "hr", "img", "input", "link", "meta",
     "source", "track", "wbr"}

VoidElements ==
    {"area", "base", "br", "col", "embed", "hr", "img", "input", "link", "meta",
     "param", "source", "track", "wbr"}

ElementSpec(void, permitted) == [VoidElement |-> void, PermittedContent |-> permitted]

ElementSpecs ==
    [html     |-> ElementSpec(FALSE, <<>>),
     head     |-> ElementSpec(FALSE, <<>>),
     body     |-> ElementSpec(FALSE, <<>>),
     title    |-> ElementSpec(FALSE, <<>>),
     ul       |-> ElementSpec(FALSE, <<"li", "script", "template">>),
     ol       |-> ElementSpec(FALSE, <<"li", "script", "template">>),
     li       |-> ElementSpec(FALSE, <<>>),
     dl       |-> ElementSpec(FALSE, <<"dt", "dd", "div", "script", "template">>),
     dt       |-> ElementSpec(FALSE, <<>>),
     dd       |-> ElementSpec(FALSE, <<>>),
     table    |-> ElementSpec(FALSE, <<"caption", "colgroup", "thead", "tbody", "tfoot",
                                       "tr", "script", "template">>),
     caption  |-> ElementSpec(FALSE, <<>>),
     colgroup |-> ElementSpec(FALSE, <<"col", "template">>),
     col      |-> ElementSpec(TRUE, <<>>),
     thead    |-> ElementSpec(FALSE, <<"tr", "script", "template">>),
     tbody    |-> ElementSpec(FALSE, <<"tr", "script", "template">>),
     tfoot    |-> ElementSpec(FALSE, <<"tr", "script", "template">>),
     tr       |-> ElementSpec(FALSE, <<"td", "th", "script", "template">>),
     td       |-> ElementSpec(FALSE, <<>>),
     th       |-> ElementSpec(FALSE, <<>>),
     form     |-> ElementSpec(FALSE, <<>>),
     fieldset |-> ElementSpec(FALSE, <<>>),
     legend   |-> ElementSpec(FALSE, <<>>),
     label    |-> ElementSpec(FALSE, <<>>),
     select   |-> ElementSpec(FALSE, <<"option", "optgroup", "hr", "script", "template">>),
     optgroup |-> ElementSpec(FALSE, <<"option", "script", "template">>),
     option   |-> ElementSpec(FALSE, <<>>),
     datalist |-> ElementSpec(FALSE, <<"option", "script", "template">>),
     picture  |-> ElementSpec(FALSE, <<"source", "img", "script", "template">>),
     video    |-> ElementSpec(FALSE, <<"source", "track">>),
     audio    |-> ElementSpec(FALSE, <<"source", "track">>),
     source   |-> ElementSpec(TRUE, <<>>),
     track    |-> ElementSpec(TRUE, <<>>),
     map      |-> ElementSpec(FALSE, <<>>),
     area     |-> ElementSpec(TRUE, <<>>),
     details  |-> ElementSpec(FALSE, <<>>),
     summary  |-> ElementSpec(FALSE, <<>>),
     ruby     |-> ElementSpec(FALSE, <<"rt", "rp">>),
     rt       |-> ElementSpec(FALSE, <<>>),
     rp       |-> ElementSpec(FALSE, <<>>),
     br       |-> ElementSpec(TRUE, <<>>),
     hr       |-> ElementSpec(TRUE, <<>>),
     img      |-> ElementSpec(TRUE, <<>>),
     input    |-> ElementSpec(TRUE, <<>>),
     meta     |-> ElementSpec(TRUE, <<>>),
     link     |-> ElementSpec(TRUE, <<>>),
     base     |-> ElementSpec(TRUE, <<>>),
     embed    |-> ElementSpec(TRUE, <<>>),
     wbr      |-> ElementSpec(TRUE, <<>>),
     param    |-> ElementSpec(TRUE, <<>>)]

\* spec, ok := ElementSpecs[tag] together with VoidElements[tag]
lookupElement(tag) ==
    [spec |-> IF tag \in DOMAIN ElementSpecs THEN ElementSpecs[tag]
              ELSE ElementSpec(FALSE, <<>>),
     ok   |-> tag \in DOMAIN ElementSpecs,
     void |-> tag \in VoidElements]

\* tags with and without an entry
ElementTags ==
    DOMAIN ElementSpecs \cup VoidElements
    \cup {"div", "span", "p", "a", "button", "textarea", "my-element", "", "BR", "Col"}

InitTables ==
    /\ htmxEnabled = FALSE
    /\ htmxVersion = ""
    /\ doc = EmptyDocument
    /\ op = "Input"
    /\ arg \in ElementTags
    /\ results = <<>>

CallLookup ==
    /\ op = "Input"
    /\ results' = lookupElement(arg)
    /\ op' = "Lookup"
    /\ UNCHANGED <<htmxEnabled, htmxVersion, doc, arg>>

NextTables == CallLookup

SpecTables == InitTables /\ [][NextTables]_vars

-----------------------------------------------------------------------------
(* Several files checked at once by one configured rule set. In this         *)
(* specification doc, arg, op and results hold one entry per worker: the     *)
(* worker's Document, its file, its position and what its calls returned.    *)
(* HTMXAttributes.Check advances one Walk callback at a time, so the         *)
(* callbacks of different workers interleave                                 *)

MaxWorkers == 2

Workers == 1..MaxWorkers

HtmlNode(t, up) == [t |-> t, up |-> up]

\* the files handed to the workers: name, raw content, parser output
ConcurrentFiles ==
    { [name |-> "a.html", content |-> "a &foo; b {{if .a}}x{{end}}\n",
       h |-> <<HtmlNode([Type |-> ElementNode, Data |-> "div",
                         Attr |-> <<Attr("id", "a"), Attr("hx-swap", "invalid")>>], 0),
               HtmlNode([Type |-> ElementNode, Data |-> "label",
                         Attr |-> <<Attr("for", "a")>>], 1)>>],
      [name |-> "b.html", content |-> "&amp; &bar;",
       h |-> <<HtmlNode([Type |-> ElementNode, Data |-> "button",
                         Attr |-> <<Attr("hx-on:htmx:nope", "x()"),
                                    Attr("hx-trigger", "every")>>], 0),
               HtmlNode([Type |-> TextNode, Data |-> "content", Attr |-> <<>>], 0)>>],
      [name |-> "c.html", content |-> "",
       h |-> <<HtmlNode([Type |-> ElementNode, Data |-> "form",
                         Attr |-> <<Attr("hx-target", "bad selector")>>], 0),
               HtmlNode([Type |-> ElementNode, Data |-> "button",
                         Attr |-> <<Attr("hx-post", "/a")>>], 1)>>] }

\* every worker's callback appends to the one slice of the first call
resultsOfShared(w) == 1

\* var results []Result is a local of each Check call
resultsOf(w) == w

InitConcurrent ==
    /\ htmxEnabled \in BOOLEAN
    /\ htmxVersion \in {"2", "4"}
    /\ arg \in [Workers -> ConcurrentFiles]
    /\ doc = [w \in Workers |-> ParseFragment(arg[w].name, arg[w].content, arg[w].h)]
    /\ op = [w \in Workers |-> [call |-> "Check", i |-> 1]]
    /\ results = [w \in Workers |->
                    [acc |-> <<>>, htmx |-> <<>>, validFor |-> <<>>, raw |-> <<>>,
                     processed |-> ""]]

\* one step of worker w inside HTMXAttributes.Check: the gate or the end of
\* the walk returns, otherwise the callback runs on the next node
StepCheck(w) ==
    /\ op[w].call = "Check"
    /\ LET order == Walk(doc[w], {})
       IN  IF ~htmxEnabled
           THEN /\ results' = [results EXCEPT ![w].htmx = <<>>]
                /\ op' = [op EXCEPT ![w] = [call |-> "ValidFor", i |-> 1]]
           ELSE IF op[w].i > Len(order)
           THEN /\ results' = [results EXCEPT ![w].htmx = results[resultsOf(w)].acc]
                /\ op' = [op EXCEPT ![w] = [call |-> "ValidFor", i |-> 1]]
           ELSE /\ results' = [results EXCEPT
                                 ![resultsOf(w)].acc =
                                     @ \o checkNode(rule, doc[w], order[op[w].i])]
                /\ op' = [op EXCEPT ![w].i = @ + 1]
    /\ UNCHANGED <<htmxEnabled, htmxVersion, doc, arg>>

StepValidFor(w) ==
    /\ op[w].call = "ValidFor"
    /\ results' = [results EXCEPT ![w].validFor = ValidForCheck(doc[w])]
    /\ op' = [op EXCEPT ![w].call = "Raw"]
    /\ UNCHANGED <<htmxEnabled, htmxVersion, doc, arg>>

\* Process and CheckRaw on the worker's raw content
StepRaw(w) ==
    /\ op[w].call = "Raw"
    /\ results' = [results EXCEPT
                     ![w].processed = Process(arg[w].content).processed,
                     ![w].raw = CheckRaw(arg[w].name, arg[w].content)]
    /\ op' = [op EXCEPT ![w].call = "Done"]
    /\ UNCHANGED <<htmxEnabled, htmxVersion, doc, arg>>

NextConcurrent ==
    \E w \in Workers :
        \/ StepCheck(w)
        \/ StepValidFor(w)
        \/ StepRaw(w)

SpecConcurrent == InitConcurrent /\ [][NextConcurrent]_vars

-----------------------------------------------------------------------------
(* UnrecognizedCharRef applied to the generated raw inputs *)

InitCharRef ==
    /\ htmxEnabled = FALSE
    /\ htmxVersion = ""
    /\ doc = EmptyDocument
    /\ op = "Input"
    /\ arg \in RawInputs
    /\ results = <<>>

CallCheckRaw ==
    /\ op = "Input"
    /\ results' = CheckRaw(Filename, arg)
    /\ op' = "CheckRaw"
    /\ UNCHANGED <<htmxEnabled, htmxVersion, doc, arg>>

CallCharRefCheck ==
    /\ op = "Input"
    /\ results' = UnrecognizedCharRefCheck(doc)
    /\ op' = "CharRefCheck"
    /\ UNCHANGED <<htmxEnabled, htmxVersion, doc, arg>>

NextCharRef == CallCheckRaw \/ CallCharRefCheck

SpecCharRef == InitCharRef /\ [][NextCharRef]_vars

-----------------------------------------------------------------------------
(* Check applied to one element that carries one attribute *)

OneAttrDocument(key, val) ==
    [EmptyDocument EXCEPT
       !.nodes = <<[@[1] EXCEPT !.Children = <<2>>],
                   Node(ElementNode, "div", <<Attr(key, val)>>, 1, 1, 1)>>]

InitSentinel ==
    /\ htmxEnabled = TRUE
    /\ htmxVersion \in {"2", "4"}
    /\ \E key \in SentinelAttrs, val \in SentinelValues : doc = OneAttrDocument(key, val)
    /\ op = "Parse"
    /\ arg = ""
    /\ results = <<>>

NextSentinel == op = "Parse" /\ RunCheck

SpecSentinel == InitSentinel /\ [][NextSentinel]_vars

-----------------------------------------------------------------------------
(* validateSwap applied to the generated hx-swap values *)

InitSwap ==
    /\ htmxEnabled = TRUE
    /\ htmxVersion \in Versions
    /\ doc = EmptyDocument
    /\ op = "Input"
    /\ arg \in SwapInputs
    /\ results = <<>>

CallValidateSwap ==
    /\ op = "Input"
    /\ results' = validateSwap(rule, Filename, attrNode, arg)
    /\ op' = "validateSwap"
    /\ UNCHANGED <<htmxEnabled, htmxVersion, doc, arg>>

NextSwap == CallValidateSwap

SpecSwap == InitSwap /\ [][NextSwap]_vars

-----------------------------------------------------------------------------
(* validateTrigger applied to the generated hx-trigger values *)

InitTrigger ==
    /\ htmxEnabled = TRUE
    /\ htmxVersion \in Versions
    /\ doc = EmptyDocument
    /\ op = "Input"
    /\ arg \in TriggerInputs
    /\ results = <<>>

CallValidateTrigger ==
    /\ op = "Input"
    /\ results' = validateTrigger(Filename, attrNode, arg)
    /\ op' = "validateTrigger"
    /\ UNCHANGED <<htmxEnabled, htmxVersion, doc, arg>>

NextTrigger == CallValidateTrigger

SpecTrigger == InitTrigger /\ [][NextTrigger]_vars

-----------------------------------------------------------------------------
(* validateTarget applied to the generated hx-target values *)

InitTarget ==
    /\ htmxEnabled = TRUE
    /\ htmxVersion \in Versions
    /\ doc = EmptyDocument
    /\ op = "Input"
    /\ arg \in TargetInputs
    /\ results = <<>>

CallValidateTarget ==
    /\ op = "Input"
    /\ results' = validateTarget(Filename, attrNode, arg)
    /\ op' = "validateTarget"
    /\ UNCHANGED <<htmxEnabled, htmxVersion, doc, arg>>

NextTarget == CallValidateTarget

SpecTarget == InitTarget /\ [][NextTarget]_vars

-----------------------------------------------------------------------------
(* validateHxOn applied to the generated hx-on attribute keys *)

InitHxOn ==
    /\ htmxEnabled = TRUE
    /\ htmxVersion \in Versions
    /\ doc = EmptyDocument
    /\ op = "Input"
    /\ arg \in HxOnInputs
    /\ results = <<>>

CallValidateHxOn ==
    /\ op = "Input"
    /\ results' = validateHxOn(rule, Filename, attrNode, arg)
    /\ op' = "validateHxOn"
    /\ UNCHANGED <<htmxEnabled, htmxVersion, doc, arg>>

NextHxOn == CallValidateHxOn

SpecHxOn == InitHxOn /\ [][NextHxOn]_vars

-----------------------------------------------------------------------------
(* Properties *)

\* vocabulary of the properties
Count(rs, P(_)) == Cardinality({i \in 1..Len(rs) : P(rs[i])})

ExactlyOne(rs, severity, text) ==
    Len(rs) = 1 /\ rs[1].Severity = severity /\ Contains(rs[1].Message, text)
    /\ rs[1].Rule = RuleHTMXAttributes

Mentions(rs, text) == \E i \in 1..Len(rs) : Contains(rs[i].Message, text)

NoSentinel(value) == ~Contains(value, "{{") /\ ~Contains(value, "TMPL")

\* digits followed by s or ms
IsTimeValue(v) ==
    \E k \in 1..Len(v) :
        /\ \A i \in 1..k : At(v, i) \in Digits
        /\ SubSeq(v, k + 1, Len(v)) \in {"s", "ms"}

SwapStrategyNames ==
    {"innerhtml", "outerhtml", "beforebegin", "afterbegin", "beforeend", "afterend",
     "delete", "none", "textcontent", "upsert"}

\* the value was validated and its first token is a strategy the version accepts
SwapStrategyAccepted ==
    /\ op = "validateSwap" /\ arg # "" /\ NoSentinel(arg) /\ Fields(arg) # <<>>
    /\ ToLower(Fields(arg)[1]) \in SwapStrategyNames
    /\ (ToLower(Fields(arg)[1]) \in {"textcontent", "upsert"} => htmxVersion = "4")

\* C1: with the framework disabled (configured off under any version, or never
\* configured) Check returns no results, whatever the document carries.
C1_DisabledReturnsNothing ==
    (op = "Check" /\ ~htmxEnabled) => results = <<>>

\* a disabled check of a document whose attributes are malformed
C1_Witness ==
    /\ op = "Check" /\ ~htmxEnabled /\ htmxVersion = "2"
    /\ Len(CheckUngated(rule, doc)) >= 3

\* C2: the first token of a non-empty, sentinel-free hx-swap value decides: not
\* a strategy -> exactly one Error "invalid hx-swap value"; textContent or upsert
\* outside version 4 -> exactly one Warning "only available in htmx 4";
\* otherwise the first token contributes no diagnostic.
C2_SwapStrategy ==
    (op = "validateSwap" /\ arg # "" /\ NoSentinel(arg) /\ Fields(arg) # <<>>) =>
        LET parts == Fields(arg)
            first == ToLower(parts[1])
        IN  /\ first \notin SwapStrategyNames =>
                ExactlyOne(results, Error, "invalid hx-swap value")
            /\ (first \in {"textcontent", "upsert"} /\ htmxVersion # "4") =>
                ExactlyOne(results, Warning, "only available in htmx 4")
            /\ SwapStrategyAccepted =>
                /\ ~Mentions(results, "invalid hx-swap value")
                /\ ~Mentions(results, "only available in htmx 4")
                /\ Len(results) <= Len(parts) - 1

\* a version-4-only strategy, followed by a bad modifier, under an unrecognized version
C2_Witness ==
    /\ op = "validateSwap" /\ htmxVersion = "3"
    /\ arg = "Upsert notamodifier"
    /\ ExactlyOne(results, Warning, "only available in htmx 4")

\* C3: a name:value modifier draws "unknown hx-swap modifier" exactly when its
\* name, ignoring letter case, is outside {swap, settle, scroll, show,
\* focus-scroll, transition, ignoreTitle}; a modifier of that set with a
\* well-formed value draws no diagnostic.
SwapModifierNames ==
    {"swap", "settle", "scroll", "show", "focus-scroll", "transition", "ignoreTitle"}

C3_UnknownModifier ==
    (SwapStrategyAccepted /\ Len(Fields(arg)) = 2 /\ Contains(Fields(arg)[2], ":")) =>
        LET name   == SplitN2(Fields(arg)[2], ":")[1]
            value  == SplitN2(Fields(arg)[2], ":")[2]
            known  == \E m \in SwapModifierNames : EqualFold(name, m)
            wellFormed ==
                /\ ToLower(name) \in {"swap", "settle"} => IsTimeValue(value)
                /\ ToLower(name) \in {"focus-scroll", "transition"} =>
                       value \in {"true", "false"}
                /\ ToLower(name) \in {"scroll", "show"} =>
                       ToLower(value) \in {"top", "bottom"} \/ HasPrefix(value, "#")
        IN  /\ Mentions(results, "unknown hx-swap modifier") <=> ~known
            /\ (known /\ wellFormed) => results = <<>>

\* C4: the tokens after the strategy are validated one by one: a token without
\* a colon gives exactly one Error "missing colon", a token gives at most one
\* diagnostic, and the result is the in-order concatenation of what each token
\* gives on its own.
RECURSIVE PerToken(_, _, _)
PerToken(r, parts, i) ==
    IF i > Len(parts) THEN <<>>
    ELSE validateSwap(r, Filename, attrNode, parts[1] \o " " \o parts[i])
         \o PerToken(r, parts, i + 1)

C4_SwapTokensIndependent ==
    SwapStrategyAccepted =>
        LET parts == Fields(arg)
        IN  /\ results = PerToken(rule, parts, 2)
            /\ \A i \in 2..Len(parts) :
                 LET one == validateSwap(rule, Filename, attrNode,
                                         parts[1] \o " " \o parts[i])
                 IN  /\ Len(one) <= 1
                     /\ ~Contains(parts[i], ":") => ExactlyOne(one, Error, "missing colon")

\* two bad tokens in a row, each reported, in order
C4_Witness ==
    /\ SwapStrategyAccepted /\ Len(Fields(arg)) = 3 /\ Len(results) = 2
    /\ Contains(results[1].Message, "missing colon")
    /\ Contains(results[2].Message, "time value")

\* C5: swap: and settle: want digits followed by s or ms (else an Error about a
\* time value); focus-scroll: and transition: want exactly true or false (else
\* an Error); scroll: and show: want top or bottom in any case, or a leading '#'
\* (else a Warning).
C5_SwapModifierValues ==
    (SwapStrategyAccepted /\ Len(Fields(arg)) = 2 /\ Contains(Fields(arg)[2], ":")) =>
        LET name  == ToLower(SplitN2(Fields(arg)[2], ":")[1])
            value == SplitN2(Fields(arg)[2], ":")[2]
        IN  /\ name \in {"swap", "settle"} =>
                IF IsTimeValue(value) THEN results = <<>>
                ELSE ExactlyOne(results, Error, "time value")
            /\ name \in {"focus-scroll", "transition"} =>
                IF value \in {"true", "false"} THEN results = <<>>
                ELSE ExactlyOne(results, Error, name)
            /\ name \in {"scroll", "show"} =>
                IF ToLower(value) \in {"top", "bottom"} \/ HasPrefix(value, "#")
                THEN results = <<>>
                ELSE ExactlyOne(results, Warning, name)

\* a time value that lacks its digits is refused
C5_Witness ==
    /\ SwapStrategyAccepted /\ arg = "innerHTML swap:s"
    /\ ExactlyOne(results, Error, "time value")

\* the value was validated as one trigger spec: no comma, at least one token
SingleTriggerSpec ==
    /\ op = "validateTrigger" /\ arg # "" /\ NoSentinel(arg)
    /\ ~Contains(arg, ",") /\ Fields(arg) # <<>>

\* C6: a spec that starts with every (any case) gives exactly one Error
\* "requires a time value" when nothing follows, exactly one Error with the
\* distinct text "requires a valid time value" when what follows is no time
\* value, and nothing when it is one.
C6_EveryNeedsTime ==
    (SingleTriggerSpec /\ ToLower(Fields(arg)[1]) = "every") =>
        LET parts == Fields(arg)
        IN  IF Len(parts) = 1
            THEN /\ ExactlyOne(results, Error, "requires a time value")
                 /\ ~Mentions(results, "requires a valid time value")
            ELSE IF ~IsTimeValue(parts[2])
            THEN /\ ExactlyOne(results, Error, "requires a valid time value")
                 /\ ~Mentions(results, "requires a time value")
            ELSE results = <<>>

\* every followed by a token that is no time value
C6_Witness ==
    /\ SingleTriggerSpec /\ arg = "EVERY s"
    /\ ExactlyOne(results, Error, "requires a valid time value")

\* C7: outside every and intersect, delay and throttle pass only with a value
\* of digits followed by s or ms, queue only with first, last, all or none
\* (any case); every other occurrence of the three is an Error.
C7_DelayThrottleQueue ==
    (/\ SingleTriggerSpec /\ Len(Fields(arg)) = 2
     /\ ToLower(Fields(arg)[1]) \notin {"every", "intersect"}
     /\ ToLower(SplitN2(Fields(arg)[2], ":")[1]) \in {"delay", "throttle", "queue"}) =>
        LET token == Fields(arg)[2]
            name  == ToLower(SplitN2(token, ":")[1])
            proper ==
                /\ Contains(token, ":")
                /\ IF name = "queue"
                   THEN ToLower(SplitN2(token, ":")[2]) \in {"first", "last", "all", "none"}
                   ELSE IsTimeValue(SplitN2(token, ":")[2])
        IN  IF proper THEN results = <<>>
            ELSE Len(results) = 1 /\ results[1].Severity = Error

\* C8: a bracketed filter [expr], attached to the event or a token of its own,
\* never draws a diagnostic, whatever expr is; and the list is split only at
\* the commas between specs, each spec validated on its own.
RECURSIVE TopLevelSpecs(_, _, _, _)
TopLevelSpecs(s, depth, cur, acc) ==
    IF s = "" THEN Append(acc, cur)
    ELSE IF Head(s) = "," /\ depth = 0
         THEN TopLevelSpecs(Tail(s), depth, "", Append(acc, cur))
         ELSE TopLevelSpecs(Tail(s),
                            IF Head(s) = "[" THEN depth + 1
                            ELSE IF Head(s) = "]" /\ depth > 0 THEN depth - 1
                            ELSE depth,
                            cur \o Head(s), acc)

RECURSIVE PerSpec(_, _)
PerSpec(specs, i) ==
    IF i > Len(specs) THEN <<>>
    ELSE validateTrigger(Filename, attrNode, specs[i]) \o PerSpec(specs, i + 1)

C8_FiltersAndCommas ==
    (op = "validateTrigger" /\ NoSentinel(arg)) =>
        /\ arg \in FilterInputs => results = <<>>
        /\ results = PerSpec(TopLevelSpecs(arg, 0, "", <<>>), 1)

\* C9: validateTarget accepts the fixed keywords, keyword-and-selector pairs
\* and selectors that begin with '#', '.' or a tag name; any other value whose
\* leading word is followed by a space draws exactly one Warning "invalid
\* hx-target keyword"; it never returns an Error.
RECURSIVE LeadingName(_)
LeadingName(s) ==
    IF s # "" /\ (LowerChar(Head(s)) # Head(s) \/ \E i \in 1..26 : At(LowerLetters, i) = Head(s)
                  \/ Head(s) \in Digits)
    THEN Head(s) \o LeadingName(Tail(s))
    ELSE ""

TargetAccepted(v) ==
    \/ ToLower(v) \in {"this", "next", "previous", "body"}
    \/ /\ Contains(v, " ")
       /\ ToLower(SplitN2(v, " ")[1]) \in {"closest", "find", "next", "previous"}
    \/ HasPrefix(v, "#")
    \/ HasPrefix(v, ".")
    \/ isValidElement(ToLower(LeadingName(v)))

C9_TargetGrammar ==
    (op = "validateTarget" /\ arg # "" /\ NoSentinel(arg)) =>
        LET v == TrimSpace(arg)
        IN  /\ \A i \in 1..Len(results) : results[i].Severity # Error
            /\ TargetAccepted(v) => results = <<>>
            /\ (~TargetAccepted(v) /\ Contains(v, " ")) =>
                   ExactlyOne(results, Warning, "invalid hx-target keyword")

\* C10: for hx-on:EVENT or hx-on-EVENT with a non-empty event name: a DOM event
\* (lowercased) draws nothing under any version; a name that is neither a DOM
\* event nor in the htmx: namespace draws exactly one Warning "unknown event";
\* a name in the htmx: namespace, outside version 4, draws nothing when it
\* equals a known htmx 2 event ignoring case and exactly one Warning "unknown
\* htmx event" otherwise.  (hx-on::X is read as hx-on:htmx:X.)
DOMEventNames ==
    {"click", "dblclick", "mousedown", "mouseup", "mousemove", "mouseenter",
     "mouseleave", "mouseover", "mouseout", "keydown", "keyup", "keypress",
     "submit", "change", "input", "focus", "blur", "reset", "invalid", "select",
     "load", "unload", "resize", "scroll", "error", "beforeunload", "hashchange",
     "popstate", "drag", "dragstart", "dragend", "dragover", "dragenter",
     "dragleave", "drop", "touchstart", "touchend", "touchmove", "touchcancel",
     "pointerdown", "pointerup", "pointermove", "pointerenter", "pointerleave",
     "pointerover", "pointerout", "pointercancel", "animationstart",
     "animationend", "animationiteration", "transitionstart", "transitionend",
     "transitionrun", "transitioncancel", "copy", "cut", "paste", "play", "pause",
     "ended", "volumechange", "seeking", "seeked", "timeupdate", "loadeddata",
     "loadedmetadata", "contextmenu", "wheel", "compositionstart", "compositionend"}

HxOnRawName ==
    IF HasPrefix(arg, "hx-on:") THEN SubSeq(arg, 7, Len(arg))
    ELSE IF HasPrefix(arg, "hx-on-") THEN SubSeq(arg, 7, Len(arg))
    ELSE ""

HxOnName == IF HasPrefix(HxOnRawName, ":") THEN "htmx" \o HxOnRawName ELSE HxOnRawName

C10_HxOnEvents ==
    (op = "validateHxOn" /\ HxOnRawName # "") =>
        LET lower       == ToLower(HxOnName)
            isDOM       == lower \in DOMEventNames
            inNamespace == HasPrefix(lower, "htmx:")
        IN  /\ isDOM => results = <<>>
            /\ (~isDOM /\ ~inNamespace) => ExactlyOne(results, Warning, "unknown event")
            /\ (~isDOM /\ inNamespace /\ htmxVersion # "4") =>
                   IF \E e \in knownHTMXv2Events : ToLower(e) = lower
                   THEN results = <<>>
                   ELSE ExactlyOne(results, Warning, "unknown htmx event")

\* a known htmx 2 event, as the HTML parser lowercases it, under version 2
C10_Witness ==
    /\ op = "validateHxOn" /\ htmxVersion = "2"
    /\ arg = "hx-on:htmx:afterrequest" /\ results = <<>>

\* C11: under version 4, htmx:NAME draws no diagnostic exactly when NAME is a
\* phase, or phase:action[:sub] with phase in {before, after, error, finally}
\* and action in the fixed action set (onLoad, viewTransition, historyUpdate
\* and historySave among them), or when NAME is one of the standalone events;
\* every other NAME draws a diagnostic.
V4ActionNames ==
    {"request", "swap", "settle", "send", "process", "cleanup", "onLoad",
     "transition", "viewTransition", "history", "historyUpdate", "historySave",
     "sse", "oob"}

V4NameAccepted(name) ==
    LET parts == Split(name, ":")
    IN  \/ \E e \in {"load", "abort", "trigger", "confirm", "prompt"} : EqualFold(name, e)
        \/ /\ \E p \in {"before", "after", "error", "finally"} : EqualFold(parts[1], p)
           /\ Len(parts) \in 1..3
           /\ Len(parts) >= 2 => \E a \in V4ActionNames : EqualFold(parts[2], a)

C11_V4Events ==
    (/\ op = "validateHxOn" /\ htmxVersion = "4"
     /\ HasPrefix(HxOnName, "htmx:") /\ ToLower(HxOnName) \notin DOMEventNames) =>
        (results = <<>> <=> V4NameAccepted(SubSeq(HxOnName, 6, Len(HxOnName))))

IsBypass(res) == Contains(res.Message, "may bypass form validation")

TypeValues(n) ==
    {ToLower(n.Attr[i].Val) : i \in {j \in 1..Len(n.Attr) : ToLower(n.Attr[j].Key) = "type"}}

SubmitControl(n) ==
    \/ ToLower(n.Data) = "button" /\ TypeValues(n) \subseteq {"", "submit"}
    \/ ToLower(n.Data) = "input" /\ "submit" \in TypeValues(n)

CarriesRequest(n) ==
    \E i \in 1..Len(n.Attr) :
        ToLower(n.Attr[i].Key) \in {"hx-get", "hx-post", "hx-put", "hx-patch", "hx-delete"}

\* the proper ancestors of id: the least set closed under Parent
Ancestors(d, id) ==
    LET step[k \in 0..Len(d.nodes)] ==
            IF k = 0 THEN {d.nodes[id].Parent} \ {0}
            ELSE step[k - 1] \cup ({d.nodes[a].Parent : a \in step[k - 1]} \ {0})
    IN  step[Len(d.nodes)]

HasFormAncestor(d, id) ==
    \E a \in Ancestors(d, id) :
        d.nodes[a].Type = ElementNode /\ ToLower(d.nodes[a].Data) = "form"

BypassExpected(d, id) ==
    /\ d.nodes[id].Type = ElementNode
    /\ SubmitControl(d.nodes[id])
    /\ CarriesRequest(d.nodes[id])
    /\ HasFormAncestor(d, id)

C13_SubmitButtonInForm ==
    (op = "Check" /\ htmxEnabled) =>
        /\ \A id \in 1..Len(doc.nodes) :
              LET rs == checkNode(rule, doc, id)
              IN  /\ Count(rs, IsBypass) = (IF BypassExpected(doc, id) THEN 1 ELSE 0)
                  /\ \A i \in 1..Len(rs) : IsBypass(rs[i]) => rs[i].Severity = Warning
        /\ Count(results, IsBypass) =
               Cardinality({id \in 1..Len(doc.nodes) : BypassExpected(doc, id)})
        /\ \A i \in 1..Len(results) : IsBypass(results[i]) => results[i].Severity = Warning

\* a submit button two levels below its form
C13_Witness ==
    /\ op = "Check" /\ htmxEnabled
    /\ \E id \in 1..Len(doc.nodes) :
          /\ ToLower(doc.nodes[id].Data) = "button" /\ BypassExpected(doc, id)
          /\ doc.nodes[id].Parent # 0
          /\ doc.nodes[doc.nodes[id].Parent].Data = "div"
          /\ doc.nodes[doc.nodes[id].Parent].Parent # 0
          /\ doc.nodes[doc.nodes[doc.nodes[id].Parent].Parent].Data = "form"
    /\ Count(results, IsBypass) = 1
    /\ \E i \in 1..Len(results) :
          Contains(results[i].Message, "hx-post on submit button inside form")

\* C14: for hx-swap, hx-trigger, hx-target, hx-vals and hx-headers, a value
\* that contains "{{" or "TMPL" anywhere draws no diagnostic from that
\* attribute, whatever the rest of the value is.
OnlyAttr == doc.nodes[2].Attr[1]

C14_SentinelSkipped ==
    (/\ op = "Check" /\ htmxEnabled /\ Len(doc.nodes) = 2 /\ Len(doc.nodes[2].Attr) = 1
     /\ ToLower(OnlyAttr.Key) \in {"hx-swap", "hx-trigger", "hx-target", "hx-vals", "hx-headers"}
     /\ \/ \E i \in 1..(Len(OnlyAttr.Val) - 1) : SubSeq(OnlyAttr.Val, i, i + 1) = "{{"
        \/ \E i \in 1..(Len(OnlyAttr.Val) - 3) : SubSeq(OnlyAttr.Val, i, i + 3) = "TMPL") =>
        results = <<>>

\* a sentinel in the middle of a value that draws an Error without it
C14_Witness ==
    /\ op = "Check" /\ htmxEnabled /\ Len(doc.nodes) = 2
    /\ OnlyAttr = Attr("hx-vals", "{bad TMPL {bad")
    /\ results = <<>>
    /\ Check(rule, OneAttrDocument("hx-vals", "{bad tmpl {bad")) # <<>>

\* C15: the version selector falls back to the older vocabulary: configured
\* with any version string other than "4" (the empty string and unrecognized
\* strings included), Check returns exactly what it returns when configured
\* with version "2", for every document.
C15_VersionFallback ==
    (op = "Check" /\ htmxVersion # "4") =>
        results = Check([rule EXCEPT !.htmxVersion = "2"], doc)

\* an unset version, on a document whose diagnostics differ between 2 and 4
C15_Witness ==
    /\ op = "Check" /\ htmxEnabled /\ htmxVersion = ""
    /\ Mentions(results, "is only available in htmx 4")
    /\ Mentions(results, "unknown htmx event 'htmx:nope'")
    /\ results # Check([rule EXCEPT !.htmxVersion = "4"], doc)

\* C16: for every label with a non-empty, non-templated for=X: no element with
\* id X in the unit -> no diagnostic; the element with id X is not one of
\* input, textarea, select, button, output, meter, progress, or is an input of
\* type hidden (any letter case) -> exactly one Error positioned at the label;
\* it is labelable and no hidden input -> no diagnostic.
IdValues(n) ==
    {n.Attr[i].Val : i \in {j \in 1..Len(n.Attr) : ToLower(n.Attr[j].Key) = "id"}}

ForValues(n) ==
    {n.Attr[i].Val : i \in {j \in 1..Len(n.Attr) : ToLower(n.Attr[j].Key) = "for"}}

ElementsWithId(d, x) ==
    {t \in 1..Len(d.nodes) : d.nodes[t].Type = ElementNode /\ x \in IdValues(d.nodes[t])}

Labelable(n) ==
    /\ ToLower(n.Data) \in {"input", "textarea", "select", "button", "output",
                             "meter", "progress"}
    /\ ~(ToLower(n.Data) = "input" /\ \E i \in 1..Len(n.Attr) :
            ToLower(n.Attr[i].Key) = "type" /\ ToLower(n.Attr[i].Val) = "hidden")

\* labels whose for value is non-empty, not templated, and names at most one element
ResolvableLabels(d) ==
    {l \in 1..Len(d.nodes) :
        /\ d.nodes[l].Type = ElementNode /\ ToLower(d.nodes[l].Data) = "label"
        /\ \E x \in ForValues(d.nodes[l]) :
              x # "" /\ NoSentinel(x) /\ Cardinality(ElementsWithId(d, x)) <= 1}

LabelTargets(d, l) == UNION {ElementsWithId(d, x) : x \in ForValues(d.nodes[l])}

C16_ValidFor ==
    op = "ValidFor" =>
        /\ \A l \in ResolvableLabels(doc) :
              LET rs == validForNode(doc, idMapFrom(doc, Walk(doc, {}), 1, <<>>), l)
              IN  IF \E t \in LabelTargets(doc, l) : ~Labelable(doc.nodes[t])
                  THEN /\ Len(rs) = 1 /\ rs[1].Severity = Error
                       /\ rs[1].Rule = RuleValidFor
                       /\ rs[1].Line = doc.nodes[l].Line /\ rs[1].Col = doc.nodes[l].Col
                  ELSE rs = <<>>
        /\ (\A l \in 1..Len(doc.nodes) :
               ToLower(doc.nodes[l].Data) = "label" /\ doc.nodes[l].Type = ElementNode
                  => l \in ResolvableLabels(doc) \/ ForValues(doc.nodes[l]) \subseteq {"", "TMPL"})
           => Len(results) = Cardinality({l \in ResolvableLabels(doc) :
                                \E t \in LabelTargets(doc, l) : ~Labelable(doc.nodes[t])})

\* a label that names a hidden input, next to a label whose target is elsewhere
C16_Witness ==
    /\ op = "ValidFor" /\ Len(results) = 1
    /\ results[1].Message = "label for attribute references hidden input"
    /\ \E l1, l2 \in ResolvableLabels(doc) :
          /\ LabelTargets(doc, l1) # {} /\ LabelTargets(doc, l2) = {}

\* C17: CheckRaw reports a Warning for every named reference &name; of the raw
\* bytes that is no valid HTML entity and lies outside template expressions,
\* with Line the 1-based line of the reference and Col its 1-based byte offset
\* in that line; it reports nothing for valid named references and nothing
\* for numeric references; the tree Check returns no results.
ValidEntityNames ==
    {"amp", "lt", "gt", "quot", "copy", "not", "nbsp", "mdash", "notin", "apos"}

\* the 1-based positions of content where a reference &name; begins
NamedRefs(content) ==
    {q \in 1..Len(content) :
        /\ At(content, q) = "&"
        /\ \E e \in (q + 2)..Len(content) :
              /\ At(content, e) = ";"
              /\ At(content, q + 1) \in Letters
              /\ \A k \in (q + 1)..(e - 1) : IsAlnum(At(content, k))}

RefName(content, q) == SubSeq(content, q + 1, alnumEnd(content, q + 1) - 1)

\* q lies within a span {{ ... }} of content, spans taken leftmost and shortest
RECURSIVE InTemplateSpan(_, _, _)
InTemplateSpan(content, from, q) ==
    LET open  == Index(SubSeq(content, from, Len(content)), "{{")
        a     == from + open
        close == Index(SubSeq(content, a + 2, Len(content)), "}}")
        b     == a + 2 + close
    IN  IF from > Len(content) \/ open = -1 \/ close = -1 THEN FALSE
        ELSE IF a < q /\ q < b THEN TRUE
        ELSE InTemplateSpan(content, b + 2, q)

LineOf(content, q) ==
    1 + Cardinality({k \in 1..(q - 1) : At(content, k) = "\n"})

ColOf(content, q) ==
    LET breaks == {k \in 1..(q - 1) : At(content, k) = "\n"}
    IN  IF breaks = {} THEN q
        ELSE q - (CHOOSE k \in breaks : \A j \in breaks : j <= k)

Reported(rs, content, q) ==
    \E i \in 1..Len(rs) :
        /\ rs[i].Line = LineOf(content, q) /\ rs[i].Col = ColOf(content, q)
        /\ rs[i].Message = "unrecognized character reference &" \o RefName(content, q) \o ";"

C17_CharRefs ==
    /\ op = "CheckRaw" =>
          /\ \A q \in NamedRefs(arg) :
                /\ (RefName(arg, q) \notin ValidEntityNames /\ ~InTemplateSpan(arg, 1, q))
                      => Reported(results, arg, q)
                /\ RefName(arg, q) \in ValidEntityNames => ~Reported(results, arg, q)
          /\ \A i \in 1..Len(results) :
                /\ results[i].Severity = Warning
                /\ \E q \in NamedRefs(arg) : Reported(<<results[i]>>, arg, q)
    /\ op = "CharRefCheck" => results = <<>>

\* C18: Process preserves the line count: the processed output holds exactly
\* as many newline characters as the input.
Newlines(s) == Cardinality({k \in 1..Len(s) : At(s, k) = "\n"})

C18_LineCountPreserved ==
    op = "Process" => Newlines(results.processed) = Newlines(arg)

\* C19: for every if ... else ... end block of the input, blocks nested in
\* another block's branches included, Process keeps the content of the
\* if-branch and none of the content of the other branch.
TextLetters(s, from, to) ==
    {At(s, k) : k \in from..to} \cap {At(UpperLetters, k) : k \in 1..26}

\* the leading word of the directive that opens at i
DirectiveWord(s, i) ==
    LET a == skipSpace(s, optDash(s, i + 2))
    IN  SubSeq(s, a, alnumEnd(s, a) - 1)

\* the letters of s by the branches they stand in: stack holds, for each open
\* block from the outermost in, whether the scan is in its if-branch
RECURSIVE Branches(_, _, _, _)
Branches(s, i, stack, acc) ==
    IF i > Len(s) THEN acc
    ELSE IF IsAt(s, i, "{{") /\ Index(SubSeq(s, i + 2, Len(s)), "}}") # -1
    THEN LET next == i + Index(SubSeq(s, i + 2, Len(s)), "}}") + 4
             word == DirectiveWord(s, i)
         IN  Branches(s, next,
                      IF word = "if" THEN Append(stack, TRUE)
                      ELSE IF word = "else" /\ stack # <<>>
                      THEN [stack EXCEPT ![Len(stack)] = FALSE]
                      ELSE IF word = "end" /\ stack # <<>>
                      THEN SubSeq(stack, 1, Len(stack) - 1)
                      ELSE stack,
                      acc)
    ELSE LET next == nextOpen(s, i)
             here == TextLetters(s, i, next - 1)
         IN  Branches(s, next, stack,
                      IF \A k \in 1..Len(stack) : stack[k]
                      THEN [acc EXCEPT !.kept = @ \cup here]
                      ELSE [acc EXCEPT !.dropped = @ \cup here])

C19_IfBranchOnly ==
    (op = "Process" /\ arg \in IfElseInputs) =>
        LET b == Branches(arg, 1, <<>>, [kept |-> {}, dropped |-> {}])
        IN  /\ \A c \in b.kept : Contains(results.processed, c)
            /\ \A c \in b.dropped : ~Contains(results.processed, c)

\* C20: a directive span left after block substitution is replaced by the
\* empty string when it is a comment, when its leading keyword is one of if,
\* else, end, range, with, block, define, template (with or without trim
\* markers), or when it starts with a trim marker; every other span is
\* replaced by the four characters TMPL.
SpanReplacement(span) ==
    LET inner == SubSeq(span, 3, Len(span) - 2)
        body  == TrimSpace(inner)
    IN  IF HasPrefix(inner, "-") THEN ""
        ELSE IF HasPrefix(body, "/*") THEN ""
        ELSE IF SubSeq(body, 1, alnumEnd(body, 1) - 1)
                  \in {"if", "else", "end", "range", "with", "block", "define", "template"}
        THEN ""
        ELSE "TMPL"

C20_SpanClassification ==
    (op = "Process" /\ arg \in SpanInputs) =>
        results.processed =
            "x" \o SpanReplacement(SubSeq(arg, 2, Len(arg) - 1)) \o "y"

\* C21: preprocessing is idempotent: Process applied to Process(x) returns
\* Process(x) unchanged, and Process is the identity on a byte string that
\* holds no directive syntax.
C21_Idempotent ==
    op = "Process" =>
        /\ Process(results.processed).processed = results.processed
        /\ ~Contains(arg, "{{") => results.processed = arg

\* an input whose first substitution joins two braces into a new directive
C21_Witness ==
    /\ op = "Process" /\ arg = "{{if .a}}C{{if .a}}A{{else}}B{{end}}{{else}}D{{end}}"
    /\ results.processed = "CAD"
    /\ Process("CAD").processed = "CAD"

\* C22: Process never fails: for every input, unbalanced or malformed
\* directive syntax and the empty directive {{}} included, it returns a nil
\* error without panicking, and an opening {{ with no later closing }} is
\* left in the output as the same literal text.
C22_NeverFails ==
    op = "Process" =>
        /\ results.err = "nil"
        /\ ~results.panicked
        /\ \A q \in 1..Len(arg) :
              (IsAt(arg, q, "{{") /\ ~Contains(SubSeq(arg, q + 2, Len(arg)), "}}"))
                 => HasSuffix(results.processed, SubSeq(arg, q, Len(arg)))

\* a complete directive followed by an opening that is never closed
C22_Witness ==
    /\ op = "Process" /\ arg = "{{ .X }} {{ .Y"
    /\ results.processed = "TMPL {{ .Y" /\ results.err = "nil" /\ ~results.panicked

\* what the claim takes a fragment-definition directive to be: an opening {{,
\* then whitespace or a trim marker, then the keyword define ended by a blank,
\* and a closing }} further on
OpensWithDefine(content) ==
    LET c     == TrimSpace(content)
        inner == SubSeq(c, 3, Len(c))
        word  == TrimLeftSpace(TrimPrefix(inner, "-"))
    IN  /\ HasPrefix(c, "{{")
        /\ Contains(inner, "}}")
        /\ \E e \in {" ", "\t", "\n", "}}"} : HasPrefix(word, "define" \o e)

\* C23: ParseFragment sets IsTemplateFragment to true exactly when the input,
\* ignoring leading whitespace, begins with a {{...}} span whose leading
\* keyword is define, optionally preceded inside the braces by whitespace or
\* a trim marker; for every other input the flag is false.
C23_TemplateFragment ==
    op = "ParseFragment" => (doc.IsTemplateFragment <=> OpensWithDefine(arg))

NodeIds(d) == 1..Len(d.nodes)

\* how many times id occurs in the children list of p
Occurrences(d, p, id) ==
    Cardinality({i \in 1..Len(d.nodes[p].Children) : d.nodes[p].Children[i] = id})

\* C24: in every Document returned by Parse or ParseFragment the root has no
\* parent; every other node has exactly one parent and occurs exactly once in
\* that parent's Children and in no other node's; every member of a node's
\* Children has that node as Parent; and following Parent links from any
\* node reaches the root without a cycle.
C24_TreeConsistent ==
    doc.Root # 0 =>
        /\ doc.nodes[doc.Root].Parent = 0
        /\ \A id \in NodeIds(doc) \ {doc.Root} :
              /\ doc.nodes[id].Parent \in NodeIds(doc)
              /\ \A p \in NodeIds(doc) :
                    Occurrences(doc, p, id) = IF p = doc.nodes[id].Parent THEN 1 ELSE 0
              /\ doc.Root \in Ancestors(doc, id)
        /\ \A id \in NodeIds(doc) :
              /\ id \notin Ancestors(doc, id)
              /\ Occurrences(doc, id, doc.Root) = 0
              /\ \A i \in 1..Len(doc.nodes[id].Children) :
                    /\ doc.nodes[id].Children[i] \in NodeIds(doc)
                    /\ doc.nodes[doc.nodes[id].Children[i]].Parent = id

\* a fragment of two top-level nodes, the first with a child of its own
C24_Witness ==
    /\ op = "ParseFragment" /\ Len(doc.nodes) = 4
    /\ doc.nodes[1].Children = <<2, 4>> /\ doc.nodes[2].Children = <<3>>
    /\ doc.nodes[3].Parent = 2 /\ doc.nodes[4].Parent = 1

\* the child indices leading from the root down to x
RECURSIVE PathTo(_, _)
PathTo(d, x) ==
    LET p == d.nodes[x].Parent
    IN  IF p = 0 THEN <<>>
        ELSE Append(PathTo(d, p),
                    CHOOSE i \in 1..Len(d.nodes[p].Children) : d.nodes[p].Children[i] = x)

\* a comes before b in pre-order: a is an ancestor of b, or where their paths
\* part a lies under the earlier child
PreOrderBefore(d, a, b) ==
    LET p == PathTo(d, a)
        q == PathTo(d, b)
    IN  \E k \in 0..Len(p) :
            /\ k <= Len(q)
            /\ SubSeq(p, 1, k) = SubSeq(q, 1, k)
            /\ \/ k = Len(p) /\ k < Len(q)
               \/ k < Len(p) /\ k < Len(q) /\ p[k + 1] < q[k + 1]

\* the nodes a walk reaches when the callback returns false on stop
ExpectedVisits(d, stop) ==
    {x \in NodeIds(d) : \A s \in stop : x = s \/ PreOrderBefore(d, x, s)}

\* C27: Document.Walk visits the nodes in pre-order, each node exactly once,
\* a node before its children and children in Children-list order; once the
\* callback returns false for a node, no further node is visited; on a
\* Document with a nil root the callback is never called.
C27_WalkPreOrder ==
    op = "Walk" =>
        IF doc.Root = 0 THEN results.seen = <<>>
        ELSE /\ {results.seen[i] : i \in 1..Len(results.seen)}
                   = ExpectedVisits(doc, results.stop)
             /\ \A i, j \in 1..Len(results.seen) :
                   i < j => PreOrderBefore(doc, results.seen[i], results.seen[j])

\* the callback returns false on a node that has a child and a later sibling
C27_Witness ==
    /\ op = "Walk" /\ Len(doc.nodes) = 4
    /\ doc.nodes[1].Children = <<2, 4>> /\ doc.nodes[2].Children = <<3>>
    /\ results.stop = {2} /\ results.seen = <<1, 2>>

\* C30: source positions are inherited: in every Document built by Parse or
\* ParseFragment each node's Line and Col equal its parent's and the root's
\* are 1 and 1, so every node has Line = 1 and Col = 1 and every diagnostic
\* of HTMXAttributes.Check or ValidFor.Check carries line 1, column 1.
C30_PositionsInherited ==
    doc.Root # 0 =>
        /\ doc.nodes[doc.Root].Line = 1 /\ doc.nodes[doc.Root].Col = 1
        /\ \A id \in NodeIds(doc) \ {doc.Root} :
              /\ doc.nodes[id].Line = doc.nodes[doc.nodes[id].Parent].Line
              /\ doc.nodes[id].Col = doc.nodes[doc.nodes[id].Parent].Col
        /\ \A id \in NodeIds(doc) : doc.nodes[id].Line = 1 /\ doc.nodes[id].Col = 1
        /\ op \in {"Check", "ValidFor"} =>
              \A i \in 1..Len(results) : results[i].Line = 1 /\ results[i].Col = 1

\* a label nested two levels down whose for names a div: ValidFor.Check
\* reports it
C30_Witness ==
    /\ op = "ValidFor" /\ Len(results) = 1
    /\ Len(doc.nodes) = 4 /\ doc.nodes[4].Parent = 3 /\ doc.nodes[3].Parent = 2
    /\ doc.nodes[4].Data = "label" /\ doc.nodes[1].Type = DocumentNode
    /\ results[1].Line = 1 /\ results[1].Col = 1

\* what worker w's calls have returned so far is what they return when the
\* file is checked alone
SequentialResults(w) ==
    /\ op[w].call \in {"ValidFor", "Raw", "Done"}
          => results[w].htmx = Check(rule, doc[w])
    /\ op[w].call \in {"Raw", "Done"}
          => results[w].validFor = ValidForCheck(doc[w])
    /\ op[w].call = "Done"
          => /\ results[w].raw = CheckRaw(arg[w].name, arg[w].content)
             /\ results[w].processed = Process(arg[w].content).processed

AllSequential == \A w \in Workers : SequentialResults(w)

\* C25: checking is free of shared mutable state: no step of Process, Walk,
\* HTMXAttributes.Check, ValidFor.Check or CheckRaw writes to the rule's
\* configuration or to a Document, and under every interleaving of the
\* workers each file gets exactly the results of checking it alone.
C25_NoSharedState ==
    /\ []AllSequential
    /\ [][UNCHANGED <<htmxEnabled, htmxVersion, doc>>]_vars

\* two workers on different files have both finished, each with diagnostics
C25_Witness ==
    /\ \A w \in Workers : op[w].call = "Done"
    /\ arg[1].name = "a.html" /\ arg[2].name = "b.html"
    /\ Len(results[1].htmx) = 1 /\ Len(results[2].htmx) = 2
    /\ Len(results[1].validFor) = 1 /\ Len(results[2].raw) = 1

\* C26: in the ElementSpecs table no entry with VoidElement = true has a
\* non-empty PermittedContent list, and the tags whose ElementSpec has
\* VoidElement = true are exactly the keys of the VoidElements table.
C26_VoidElements ==
    op = "Lookup" =>
        /\ results.spec.VoidElement => results.spec.PermittedContent = <<>>
        /\ (results.ok /\ results.spec.VoidElement) <=> results.void

\* the deprecated void element, present in both tables
C26_Witness ==
    /\ op = "Lookup" /\ arg = "param"
    /\ results.ok /\ results.spec.VoidElement /\ results.void
    /\ results.spec.PermittedContent = <<>>

RECURSIVE Flatten(_)
Flatten(seqs) == IF seqs = <<>> THEN <<>> ELSE Head(seqs) \o Flatten(Tail(seqs))

\* the nodes of d listed by their pre-order rank
PreOrderSeq(d) ==
    [i \in 1..Len(d.nodes) |->
        CHOOSE x \in NodeIds(d) :
            Cardinality({y \in NodeIds(d) : PreOrderBefore(d, y, x)}) = i - 1]

\* the diagnostics of one attribute on an element of its own
AttrAlone(key, val) == Check(rule, OneAttrDocument(key, val))

\* the diagnostics of the attributes of n, attribute by attribute
AttrsInOrder(n) == Flatten([i \in 1..Len(n.Attr) |-> AttrAlone(n.Attr[i].Key, n.Attr[i].Val)])

\* an hx-swap value gives its tokens' diagnostics in token order, an
\* hx-trigger value its comma-separated specs' diagnostics in spec order
TokensInOrder(key, val) ==
    /\ ToLower(key) = "hx-swap" /\ Len(Fields(val)) > 1 =>
          AttrAlone(key, val) =
              Flatten([i \in 1..(Len(Fields(val)) - 1) |->
                          AttrAlone(key, Fields(val)[1] \o " " \o Fields(val)[i + 1])])
    /\ ToLower(key) = "hx-trigger" =>
          AttrAlone(key, val) =
              Flatten([i \in 1..Len(Split(val, ",")) |-> AttrAlone(key, Split(val, ",")[i])])

\* what one element contributes: its attributes' diagnostics, then the
\* submit-button Warning if the element calls for one
ElementInOrder(d, id, chunk) ==
    LET n     == d.nodes[id]
        attrs == IF n.Type = ElementNode THEN AttrsInOrder(n) ELSE <<>>
        rest  == SubSeq(chunk, Len(attrs) + 1, Len(chunk))
    IN  /\ Len(chunk) >= Len(attrs)
        /\ SubSeq(chunk, 1, Len(attrs)) = attrs
        /\ IF BypassExpected(d, id)
           THEN /\ Len(rest) = 1
                /\ rest[1].Severity = Warning
                /\ Contains(rest[1].Message, "submit button inside form")
           ELSE rest = <<>>
        /\ \A i \in 1..Len(n.Attr) : TokensInOrder(n.Attr[i].Key, n.Attr[i].Val)

\* how many diagnostics the element calls for
PartLen(d, id) ==
    LET n == d.nodes[id]
    IN  IF n.Type # ElementNode THEN 0
        ELSE Len(AttrsInOrder(n)) + (IF BypassExpected(d, id) THEN 1 ELSE 0)

\* where the part of the k-th node of seq ends in the result sequence
RECURSIVE PartEnd(_, _, _)
PartEnd(d, seq, k) == IF k = 0 THEN 0 ELSE PartEnd(d, seq, k - 1) + PartLen(d, seq[k])

\* the key orders a map iteration is tried in: the keys from a chosen
\* listing, started at several places and taken in both directions
RECURSIVE SetToSeq(_)
SetToSeq(S) ==
    IF S = {} THEN <<>>
    ELSE LET x == CHOOSE x \in S : TRUE IN <<x>> \o SetToSeq(S \ {x})

Reverse(seq) == [i \in 1..Len(seq) |-> seq[Len(seq) + 1 - i]]

Rotate(seq, k) == SubSeq(seq, k + 1, Len(seq)) \o SubSeq(seq, 1, k)

EventOrders ==
    LET base == SetToSeq(knownHTMXv2Events)
    IN  {Rotate(base, k) : k \in {0, 23}} \cup {Reverse(Rotate(base, k)) : k \in {0, 23}}

\* every order gives the loop's outcome of the first one, and that outcome
\* decides the diagnostic of an htmx: event under htmx 2
OrderIndependent(d) ==
    \A id \in NodeIds(d) : \A i \in 1..Len(d.nodes[id].Attr) :
        LET e     == expandShorthand(hxOnEventName(d.nodes[id].Attr[i].Key))
            found == \E o \in EventOrders : rangeKnownHTMXv2Events(o, 1, e)
        IN  HasPrefix(ToLower(e), "htmx:") =>
                /\ \A o \in EventOrders : rangeKnownHTMXv2Events(o, 1, e) = found
                /\ htmxVersion # "4" =>
                      (found <=> AttrAlone(d.nodes[id].Attr[i].Key, "x()") = <<>>)

\* C28: HTMXAttributes.Check is deterministic and ordered: the result
\* sequence lists diagnostics by element in pre-order, within an element by
\* attribute in source order, within an attribute by token or trigger spec
\* from left to right, with the element's submit-button Warning after its
\* attribute diagnostics; a second call returns the same sequence, and the
\* order in which the htmx 2 event map is iterated never changes the outcome.
C28_DeterministicOrder ==
    op = "Check" =>
        /\ results = Check(rule, doc)
        /\ LET seq == PreOrderSeq(doc)
               end == [k \in 0..Len(seq) |-> PartEnd(doc, seq, k)]
           IN  /\ Len(results) = end[Len(seq)]
               /\ \A k \in 1..Len(seq) :
                     ElementInOrder(doc, seq[k], SubSeq(results, end[k - 1] + 1, end[k]))
        /\ OrderIndependent(doc)

\* a form with a submit button inside and a div after it: token, attribute
\* and element order all show, and the button's Warning closes its part
C28_Witness ==
    /\ op = "Check" /\ htmxVersion = "2" /\ Len(doc.nodes) = 4
    /\ doc.nodes[2].Data = "form" /\ doc.nodes[3].Data = "button"
    /\ doc.nodes[3].Parent = 2 /\ doc.nodes[4].Data = "div" /\ doc.nodes[4].Parent = 1
    /\ Len(results) = 11
    /\ results[6].Severity = Warning
    /\ Contains(results[6].Message, "submit button inside form")

\* the 1-based position where the line holding position q begins
LineStart(content, q) == q - ColOf(content, q) + 1

\* the position just past the line holding position q
LineEnd(content, q) ==
    LET breaks == {k \in q..Len(content) : At(content, k) = "\n"}
    IN  IF breaks = {} THEN Len(content) + 1
        ELSE CHOOSE k \in breaks : \A j \in breaks : k <= j

\* some {{ before q on q's line has its closing }}, the first }} after it,
\* after q on the same line
InsideOnLine(content, q) ==
    \E a \in LineStart(content, q)..(q - 2) :
        /\ IsAt(content, a, "{{")
        /\ ~Contains(SubSeq(content, a + 2, q - 1), "}}")
        /\ Contains(SubSeq(content, q, LineEnd(content, q) - 1), "}}")

\* C29: CheckRaw never reports a named character reference that lies inside
\* a template expression: if some {{ before the reference on its line has
\* its closing }} after the reference, no diagnostic is produced for it,
\* whatever other braces precede it on the line.
C29_InsideTemplateSkipped ==
    op = "CheckRaw" =>
        \A q \in NamedRefs(arg) : InsideOnLine(arg, q) => ~Reported(results, arg, q)

====
